---- MODULE Spec2Model ----
(***************************************************************************)
(* Model of the Electron main process of AccountantAI (src/main.js), the   *)
(* preload bridge (src/init-directories.js, second half) and the renderer  *)
(* subscribers (src/renderer.js).  Further specifications take one part    *)
(* each: SpecParser the stdout stream, SpecBus the ipcRenderer event       *)
(* channels of the preload bridge, SpecFs the file handlers of main.js,    *)
(* SpecExplorer the results page (src/unnamed/part_005), SpecRace two      *)
(* rename requests in flight, SpecCheckpoint the checkpoint file,          *)
(* SpecWindow the children of a window that was closed, SpecTabs the tabs  *)
(* of the page (src/renderer.js and the tab handler, src/unnamed/part_000),*)
(* SpecUpload the copies of processUploadedFiles.                          *)
(*                                                                         *)
(* The main process is single threaded: every ipcMain handler, every child *)
(* process callback and every timer callback runs to completion, so each   *)
(* of them is one action.  webContents.send followed by the ipcRenderer.on *)
(* callback is folded into the sending action (the channel is FIFO and the *)
(* main process never reads renderer state).                               *)
(***************************************************************************)
EXTENDS Integers, Sequences, FiniteSets, TLC

\* ------------------------------------------------------------------ bounds
MaxWorkers == 2        \* child processes spawned in one behaviour
MaxRecords == 2        \* records of one stdout stream in SpecParser
MaxListeners == 2      \* callbacks registered in one behaviour of SpecBus
MaxEvents == 2         \* events sent to the window in one behaviour of SpecBus
MaxMutations == 2      \* handler calls that change the tree in one behaviour of SpecFs

\* --------------------------------------------------------------- constants
Null == 0              \* let pythonProcess = null
Undef == "undefined"   \* a field the payload does not have

Workers == 1..MaxWorkers

VARIABLES
  mainWindow,          \* main.js:37   TRUE when a BrowserWindow exists
  pythonProcess,       \* main.js:38   Null or the child the supervisor records
  nspawn,              \* number of ChildProcess objects spawn() has returned
  wk,                  \* per child: OS state, signals received, structured result sent
  timers,              \* pending 5 s timers of stop-python, by the child stopped
  lastResult,          \* value the ipcMain handler of the last step returned
  lastSent,            \* events the last step sent to the window, in order
  goToResultsDisabled, \* renderer.js:11  goToResultsBtn.disabled
  pending,             \* parser spec: bytes the child wrote, not yet read
  chunks,              \* parser spec: the chunks read so far
  published,           \* parser spec: events sent for those chunks
  callbacks,           \* bus spec: the callbacks registered so far, by id
  listeners,           \* bus spec: ipcRenderer's listener ids of each channel
  wire,                \* bus spec: events sent by main, not yet emitted
  nsent,               \* bus spec: number of webContents.send calls so far
  received,            \* bus spec: per callback, the events it was called with
  stale,               \* bus spec: callbacks registered before a removal
  fs,                  \* fs spec: the file tree, location -> "dir" or content
  nmut,                \* fs spec: handler calls that changed the tree so far
  fsCall,              \* fs spec: channel and arguments of the last step's request
  fsResult,            \* fs spec: value the file handler of the last step returned
  currentDirectory,    \* explorer: part_005:78  let currentDirectory = 'processed'
  items,               \* explorer: the folder and file items of #fileExplorer
  dataTransfer,        \* explorer: the data of the drag in progress
  lastDrop,            \* explorer: the drop the last step handled, with its requests
  outbox,              \* requests sent with ipcRenderer.invoke, not yet handled
  served,              \* race spec: the requests handled, in order, with results
  detached,            \* window spec: the children that were running when their
                       \* window closed (history)
  activePane,          \* the .tab-pane that has the class active
  importedFiles,       \* renderer.js:31  importedFiles.length
  totalProcessedFiles, \* renderer.js:35
  processingFilesList, \* #processingFilesList: the class of each child
  statusMessage,       \* #statusMessage: the text last shown
  processBtnDisabled,  \* processBtn.disabled
  checkpoint,          \* data/checkpoint.json: absent, unparsable, or a list of ids
  ckResult             \* checkpoint spec: value the last step's operation returned

vars == <<mainWindow, pythonProcess, nspawn, wk, timers, lastResult,
          lastSent, goToResultsDisabled, pending, chunks, published,
          callbacks, listeners, wire, nsent, received, stale,
          fs, nmut, fsCall, fsResult,
          currentDirectory, items, dataTransfer, lastDrop, outbox, served,
          detached, activePane, importedFiles, totalProcessedFiles,
          processingFilesList, statusMessage, processBtnDisabled,
          checkpoint, ckResult>>

supVars == <<mainWindow, pythonProcess, nspawn, wk, timers, lastResult,
             lastSent, goToResultsDisabled>>

parVars == <<pending, chunks, published>>

busVars == <<callbacks, listeners, wire, nsent, received, stale>>

fsVars == <<fs, nmut, fsCall, fsResult>>

uiVars == <<currentDirectory, items, dataTransfer, lastDrop, outbox>>

ckVars == <<checkpoint, ckResult>>

tabVars == <<activePane, importedFiles, totalProcessedFiles,
             processingFilesList, statusMessage, processBtnDisabled>>

\* the variables of the explorer, the race, the checkpoint, the window and
\* the tab specifications
extVars == <<uiVars, served, detached, tabVars, ckVars>>

\* ------------------------------------------------------------ stdout bytes
\* The stream is a sequence of tokens.  LB and RB are the braces, NL is the
\* newline (the only whitespace), the S* and OT tokens are one JSON member
\* each, TX is a word of free text and PC is the text "Processing complete".
Members == {"ST", "SF", "SY", "SUT", "SUF", "OT"}
Tokens == {"LB", "RB", "NL", "TX", "PC"} \cup Members

RECURSIVE TrimLeft(_)
TrimLeft(s) ==
  IF s # <<>> /\ Head(s) = "NL" THEN TrimLeft(Tail(s)) ELSE s

RECURSIVE TrimRight(_)
TrimRight(s) ==
  IF s # <<>> /\ s[Len(s)] = "NL" THEN TrimRight(SubSeq(s, 1, Len(s) - 1)) ELSE s

\* String.prototype.trim
Trim(s) == TrimRight(TrimLeft(s))

\* output.trim().startsWith('{') && output.trim().endsWith('}')
LooksLikeJson(output) ==
  LET t == Trim(output) IN t # <<>> /\ Head(t) = "LB" /\ t[Len(t)] = "RB"

\* JSON.parse(output) does not throw: one object with no or one member
\* (two members with no comma, free text or a second object do not parse)
JsonParses(output) ==
  LET t == Trim(output) IN
    \/ t = <<"LB", "RB">>
    \/ Len(t) = 3 /\ t[1] = "LB" /\ t[2] \in Members /\ t[3] = "RB"

\* the fields of JSON.parse(output) the program reads
JsonParse(output) ==
  LET t == Trim(output)
      m == IF Len(t) = 3 THEN t[2] ELSE "none" IN
    [status  |-> IF m = "ST" THEN "processing"
                 ELSE IF m = "SY" THEN "done"
                 ELSE IF m = "SF" THEN "" ELSE Undef,
     type    |-> IF m = "SY" THEN "complete" ELSE Undef,
     success |-> IF m = "SUT" THEN "true"
                 ELSE IF m = "SUF" THEN "false" ELSE Undef,
     message |-> <<>>,
     data    |-> <<>>]

\* JavaScript truthiness of a string-valued or missing field
Truthy(v) == v # Undef /\ v # "" /\ v # "false"

Event(ch, payload, src) == [ch |-> ch, payload |-> payload, src |-> src]

Payload(status, type, success, message, data) ==
  [status |-> status, type |-> type, success |-> success,
   message |-> message, data |-> data]

\* ------------------------------------------------- main.js: child callbacks
\* pythonProcess.stdout.on('data'): the events one chunk sends to the window
StdoutOnData(output, win, src) ==
  IF LooksLikeJson(output)
  THEN IF ~JsonParses(output)
       THEN \* JSON.parse throws: the catch sends the raw output
            IF win THEN <<Event("python-output", Payload(Undef, Undef, Undef, <<>>, output), src)>>
            ELSE <<>>
       ELSE LET jsonData == JsonParse(output) IN
            IF Truthy(jsonData.status)
            THEN IF win THEN <<Event("process-status", jsonData, src)>> ELSE <<>>
            ELSE IF jsonData.success # Undef
            THEN IF win THEN <<Event("process-result", jsonData, src)>> ELSE <<>>
            ELSE <<>>
  ELSE IF win
       THEN <<Event("process-status", Payload("running", Undef, Undef, <<>>, output), src)>>
       ELSE <<>>

\* pythonProcess.stderr.on('data')
StderrOnData(errorOutput, win, src) ==
  IF win
  THEN <<Event("python-error", Payload(Undef, Undef, Undef, <<>>, errorOutput), src),
         Event("process-status", Payload("error", Undef, Undef, <<>>, errorOutput), src)>>
  ELSE <<>>

\* a close callback that tests the code for truthiness the wrong way round
ExitResult_Inverted(code) ==
  IF code # "0"
  THEN Payload(Undef, Undef, "true", <<"Processing completed successfully">>, <<>>)
  ELSE Payload(Undef, Undef, "false", <<"Processing failed with exit code", code>>, <<>>)

\* the process-result the close callback builds from the exit code
ExitResult(code) ==
  IF code = "0"
  THEN Payload(Undef, Undef, "true", <<"Processing completed successfully">>, <<>>)
  ELSE Payload(Undef, Undef, "false", <<"Processing failed with exit code", code>>, <<>>)

\* pythonProcess.on('close'): the events it sends to the window
CloseEvents(code, win, src) ==
  IF win
  THEN <<Event("python-exit", Payload(Undef, Undef, Undef, <<>>, <<code>>), src),
         Event("process-result", ExitResult(code), src)>>
  ELSE <<>>

\* -------------------------------------------------- renderer.js subscribers
\* message.includes(...) tests of addToProcessingLog, on the log message
IsCompletionMessage(message) ==
  \E i \in 1..Len(message) : message[i] \in {"PC", "Completed processing:"}

\* handleProcessStatus: the log message it adds, <<>> when it adds none
StatusLogMessage(data) ==
  IF data.type = "progress" THEN <<"Processing file:">>
  ELSE IF data.type = "complete" THEN <<"PC">>
  ELSE IF data.type = "error" THEN <<"Error:">> \o data.message
  ELSE IF data.type = "log" THEN data.message
  ELSE <<>>

\* handleProcessStatus: the branch of its if/else chain that runs, "none"
\* when no test of data.type is true
StatusBranch(data) ==
  IF data.type \in {"progress", "complete", "error", "log"} THEN data.type ELSE "none"

\* handleProcessResult: the log message it adds
ResultLogMessage(data) ==
  IF Truthy(data.success) THEN <<"Completed processing:">> ELSE <<"Error processing:">>

\* goToResultsBtn.disabled after the subscribers handled one event
RendererOn(ev, disabled) ==
  IF ev.ch = "process-status"
  THEN disabled /\ ~(ev.payload.type = "complete")
                /\ ~IsCompletionMessage(StatusLogMessage(ev.payload))
  ELSE IF ev.ch = "process-result"
  THEN disabled /\ ~Truthy(ev.payload.success)
                /\ ~IsCompletionMessage(ResultLogMessage(ev.payload))
  ELSE disabled   \* python-output, python-error, python-exit: no subscriber

RECURSIVE RendererAll(_, _)
RendererAll(evs, disabled) ==
  IF evs = <<>> THEN disabled
  ELSE RendererAll(Tail(evs), RendererOn(Head(evs), disabled))

\* the marker phrase is in the data an event carries
CarriesPhrase(ev) ==
  \E i \in 1..Len(ev.payload.data) : ev.payload.data[i] = "PC"

\* ------------------------------------------------------- supervisor state
Signals == {"SIGTERM", "SIGKILL"}
ExitCodes == {"0", "1", "null"}       \* "null": ended by a signal
\* the .env file: missing; without ANTHROPIC_API_KEY; with the sample value
\* 'your_api_key_here'; with a key
EnvStates == {"missing", "nokey", "placeholder", "valid"}
\* what spawn() can do: start the child, emit 'error' later (ENOENT: no such
\* executable), or throw; "copyfail" is a failing copy of main.py before it
SpawnOutcomes == {"ok", "ENOENT", "throw", "copyfail"}

\* what one start reads: the .env file, and what spawn() does when the key
\* lets startPythonProcess reach it
StartInputs ==
  {<<k, "ok">> : k \in EnvStates} \cup {<<"valid", o>> : o \in SpawnOutcomes}

\* the stdout chunks of the supervisor specification: one record each
SampleChunks ==
  { <<"LB", "ST", "RB", "NL">>, <<"LB", "SUT", "RB", "NL">>,
    <<"LB", "SUF", "RB", "NL">>, <<"LB", "OT", "RB", "NL">>,
    <<"LB", "TX", "RB", "NL">>, <<"PC", "NL">> }

\* st: the child's state; sig: the signals it has received while it lives;
\* structured: the stdout callback has sent a process-result for it
NewWorker == [st |-> "unborn", sig |-> {}, structured |-> FALSE]

NoResult == [op |-> "none", success |-> FALSE, alreadyRunning |-> FALSE,
             notRunning |-> FALSE, pid |-> Null, error |-> "none"]

Result(op, success, alreadyRunning, notRunning, pid, error) ==
  [op |-> op, success |-> success, alreadyRunning |-> alreadyRunning,
   notRunning |-> notRunning, pid |-> pid, error |-> error]

Alive(w) == wk[w].st = "alive"
LiveWorkers == {w \in Workers : Alive(w)}

\* ChildProcess.kill(signal) / tree-kill: a child that has exited gets nothing
Kill(w, signal) ==
  IF Alive(w) THEN [wk EXCEPT ![w].sig = @ \cup {signal}] ELSE wk

RECURSIVE CountResults(_)
CountResults(evs) ==
  IF evs = <<>> THEN 0
  ELSE (IF Head(evs).ch = "process-result" THEN 1 ELSE 0) + CountResults(Tail(evs))

\* a step that is no ipcMain handler returns nothing to the renderer
NoReturn == lastResult' = NoResult

\* webContents.send of evs in order, and the renderer's subscribers for each
Send(evs) ==
  /\ lastSent' = evs
  /\ goToResultsDisabled' = RendererAll(evs, goToResultsDisabled)

\* a test of the key that lets the sample value through
KeyUsable_AcceptsPlaceholder(envKey) == envKey \in {"valid", "placeholder"}

\* the .env file has an ANTHROPIC_API_KEY that is not the sample value; the
\* file is read at every start and the user may have changed it in between
KeyUsable(envKey) == envKey = "valid"

\* ---------------------------------------------------- startPythonProcess
\* the value startPythonProcess returns
StartReturn(envKey, outcome) ==
  IF pythonProcess # Null
  THEN Result("start", TRUE, TRUE, FALSE, Null, "none")
  ELSE IF envKey = "missing"
  THEN Result("start", FALSE, FALSE, FALSE, Null, "API key not set")
  ELSE IF ~KeyUsable(envKey)
  THEN Result("start", FALSE, FALSE, FALSE, Null, "API key not set or using default value")
  ELSE IF outcome = "copyfail"
  THEN Result("start", FALSE, FALSE, FALSE, Null, "Failed to set up Python environment")
  ELSE IF outcome = "throw"
  THEN Result("start", FALSE, FALSE, FALSE, Null, "spawn")
  ELSE IF outcome = "ENOENT"
  THEN Result("start", TRUE, FALSE, FALSE, Null, "none")      \* pid: undefined
  ELSE Result("start", TRUE, FALSE, FALSE, nspawn + 1, "none")

\* a startPythonProcess without the check of pythonProcess at its top
Spawns_NoRunningCheck(envKey, outcome) ==
  KeyUsable(envKey) /\ outcome \in {"ok", "ENOENT"}

\* startPythonProcess reaches spawn() and spawn() returns a ChildProcess
Spawns(envKey, outcome) ==
  pythonProcess = Null /\ KeyUsable(envKey) /\ outcome \in {"ok", "ENOENT"}

\* the state startPythonProcess leaves
StartPythonProcess(envKey, outcome) ==
  IF Spawns(envKey, outcome)
  THEN /\ nspawn < MaxWorkers
       /\ nspawn' = nspawn + 1
       /\ pythonProcess' = nspawn + 1
       /\ wk' = [wk EXCEPT ![nspawn + 1].st = IF outcome = "ok" THEN "alive" ELSE "failed"]
  ELSE UNCHANGED <<nspawn, pythonProcess, wk>>

\* ipcMain.handle('start-python')
StartPython(envKey, outcome) ==
  /\ mainWindow
  /\ StartPythonProcess(envKey, outcome)
  /\ lastResult' = [StartReturn(envKey, outcome) EXCEPT !.op = "start-python"]
  /\ Send(<<>>)
  /\ UNCHANGED <<mainWindow, timers, parVars, busVars, fsVars, extVars>>

StartingStatus ==
  Event("process-status",
        Payload("starting", Undef, Undef, <<"Starting document processing">>, <<>>), Null)

AlreadyRunningStatus ==
  Event("process-status",
        Payload("running", Undef, Undef, <<"Document processing already running">>,
                <<"Python process is already active">>), Null)

StartFailedStatus(error) ==
  Event("process-status",
        Payload("error", Undef, Undef, <<"Failed to start processing">>, <<error>>), Null)

\* ipcMain.handle('process-documents')
ProcessDocuments(envKey, outcome) ==
  /\ mainWindow
  /\ IF pythonProcess # Null
     THEN /\ Send(<<StartingStatus, AlreadyRunningStatus>>)
          /\ lastResult' = Result("process-documents", TRUE, TRUE, FALSE, Null, "none")
          /\ UNCHANGED <<nspawn, pythonProcess, wk>>
     ELSE LET result == StartReturn(envKey, outcome) IN
          /\ StartPythonProcess(envKey, outcome)
          /\ IF ~result.success
             THEN /\ Send(<<StartingStatus, StartFailedStatus(result.error)>>)
                  /\ lastResult' = Result("process-documents", FALSE, FALSE, FALSE,
                                          Null, result.error)
             ELSE /\ Send(<<StartingStatus>>)
                  /\ lastResult' = Result("process-documents", TRUE, FALSE, FALSE,
                                          result.pid, "none")
  /\ UNCHANGED <<mainWindow, timers, parVars, busVars, fsVars, extVars>>

\* ------------------------------------------------------------ stop-python
\* a stop-python without the early return of main.js:625: it arms the timer
\* whether or not a child is recorded
StopPython_NoEarlyReturn ==
  /\ mainWindow
  /\ wk' = IF pythonProcess # Null THEN Kill(pythonProcess, "SIGTERM") ELSE wk
  /\ timers' = timers \cup {pythonProcess}
  /\ pythonProcess' = Null
  /\ lastResult' = Result("stop-python", TRUE, FALSE, pythonProcess = Null, Null, "none")
  /\ Send(<<>>)
  /\ UNCHANGED <<mainWindow, nspawn, parVars, busVars, fsVars, extVars>>

\* ipcMain.handle('stop-python'): SIGTERM, arm the 5 s timer, forget the child
StopPython ==
  /\ mainWindow
  /\ IF pythonProcess = Null
     THEN /\ lastResult' = Result("stop-python", TRUE, FALSE, TRUE, Null, "none")
          /\ UNCHANGED <<wk, timers, pythonProcess>>
     ELSE /\ wk' = Kill(pythonProcess, "SIGTERM")
          /\ timers' = timers \cup {pythonProcess}
          /\ pythonProcess' = Null
          /\ lastResult' = Result("stop-python", TRUE, FALSE, FALSE, Null, "none")
  /\ Send(<<>>)
  /\ UNCHANGED <<mainWindow, nspawn, parVars, busVars, fsVars, extVars>>

\* the setTimeout callback of stop-python, armed when child t was stopped: it
\* reads the module variable pythonProcess as it is when the timer fires
ForceKillTimer(t) ==
  /\ t \in timers
  /\ timers' = timers \ {t}
  /\ wk' = IF pythonProcess # Null THEN Kill(pythonProcess, "SIGKILL") ELSE wk
  /\ NoReturn
  /\ Send(<<>>)
  /\ UNCHANGED <<mainWindow, pythonProcess, nspawn, parVars, busVars, fsVars, extVars>>

\* --------------------------------------------------------- child callbacks
\* pythonProcess.stdout.on('data') of child w: the pipe may still hold data
\* when the child has exited; the close event comes after the last chunk
StdoutCallback(w, output) ==
  /\ wk[w].st \in {"alive", "dead"}
  /\ LET evs == StdoutOnData(output, mainWindow, w) IN
       /\ Send(evs)
       /\ wk' = [wk EXCEPT ![w].structured = @ \/ CountResults(evs) > 0]
  /\ NoReturn
  /\ UNCHANGED <<mainWindow, pythonProcess, nspawn, timers>>

StdoutData(w, output) ==
  /\ StdoutCallback(w, output)
  /\ UNCHANGED <<parVars, busVars, fsVars, extVars>>

\* pythonProcess.stderr.on('data') of child w
StderrData(w) ==
  /\ wk[w].st \in {"alive", "dead"}
  /\ Send(StderrOnData(<<"TX", "NL">>, mainWindow, w))
  /\ NoReturn
  /\ UNCHANGED <<mainWindow, pythonProcess, nspawn, wk, timers, parVars, busVars, fsVars, extVars>>

\* the child process ends, by itself or by a signal (one the supervisor sent
\* or any other); nothing reads its exit code before the close event
WorkerExit(w) ==
  /\ Alive(w)
  /\ wk' = [wk EXCEPT ![w].st = "dead", ![w].sig = {}]
  /\ NoReturn
  /\ Send(<<>>)
  /\ UNCHANGED <<mainWindow, pythonProcess, nspawn, timers, parVars, busVars, fsVars, extVars>>

\* a close callback without the pythonProcess = null of main.js:546
CloseHandler_KeepsReference(w, code) ==
  /\ wk[w].st = "dead"
  /\ LET evs == CloseEvents(code, mainWindow, w) IN
       /\ Send(evs)
       /\ wk' = [wk EXCEPT ![w].st = "closed"]
  /\ NoReturn
  /\ UNCHANGED <<mainWindow, pythonProcess, nspawn, timers, parVars, busVars, fsVars, extVars>>

\* pythonProcess.on('close', (code) => ...) of child w
CloseHandler(w, code) ==
  /\ wk[w].st = "dead"
  /\ LET evs == CloseEvents(code, mainWindow, w) IN
       /\ Send(evs)
       /\ wk' = [wk EXCEPT ![w].st = "closed"]
  /\ pythonProcess' = Null
  /\ NoReturn
  /\ UNCHANGED <<mainWindow, nspawn, timers, parVars, busVars, fsVars, extVars>>

\* ------------------------------------------------------------ the window
\* mainWindow.on('closed'); the renderer and its state go with the window
ClosedCallback ==
  /\ mainWindow
  /\ mainWindow' = FALSE
  /\ wk' = IF pythonProcess # Null THEN Kill(pythonProcess, "SIGTERM") ELSE wk
  /\ pythonProcess' = Null
  /\ NoReturn
  /\ lastSent' = <<>>
  /\ goToResultsDisabled' = TRUE
  /\ UNCHANGED <<nspawn, timers>>

WindowClosed ==
  /\ ClosedCallback
  /\ UNCHANGED <<parVars, busVars, fsVars, extVars>>

\* app.on('activate') (macOS): createWindow when there is no window
Activate ==
  /\ ~mainWindow
  /\ mainWindow' = TRUE
  /\ NoReturn
  /\ Send(<<>>)
  /\ UNCHANGED <<pythonProcess, nspawn, wk, timers, parVars, busVars, fsVars, extVars>>

\* -------------------------------------------- the parts before their use
\* the five channels of the preload bridge
BusChannels ==
  {"process-status", "process-result", "python-output", "python-error", "python-exit"}

ListenerIds == 1..MaxListeners

\* no callback registered, nothing sent
BusIdle ==
  /\ callbacks = <<>>
  /\ listeners = [ch \in BusChannels |-> <<>>]
  /\ wire = <<>>
  /\ nsent = 0
  /\ received = [l \in ListenerIds |-> <<>>]
  /\ stale = {}

\* locations are absolute paths, as the sequence of their names from "/"
ProcessedDir == <<"data", "processed">>
MetadataDir == <<"data", "metadata">>

\* the tree after a run over a.pdf and b.pdf: the two documents, their
\* sidecars, and a file of another application outside the data directory
InitialTree ==
  (<<>> :> "dir") @@ (<<"data">> :> "dir") @@ (<<"etc">> :> "dir") @@
  (ProcessedDir :> "dir") @@ (MetadataDir :> "dir") @@
  (Append(ProcessedDir, "a.pdf") :> "A") @@ (Append(ProcessedDir, "b.pdf") :> "B") @@
  (Append(MetadataDir, "a.json") :> "MA") @@ (Append(MetadataDir, "b.json") :> "MB") @@
  (<<"etc", "x.pdf">> :> "X")

NoFsCall == <<"none">>

NoFsResult ==
  [op |-> "none", success |-> FALSE, error |-> "none", dirs |-> <<>>, files |-> <<>>]

\* the file handlers have not been called; the tree is left out of the
\* specifications that do not call them
FsIdle ==
  /\ fs = <<>>
  /\ nmut = 0
  /\ fsCall = NoFsCall
  /\ fsResult = NoFsResult

NoDrag == [name |-> "", type |-> "none"]

NoDrop == [source |-> "", type |-> "none", target |-> "", requests |-> <<>>]

\* the checkpoint file: whether it exists, whether its text parses as a
\* JSON list, and the identifiers of the list
File(exists, parses, ids) == [exists |-> exists, parses |-> parses, ids |-> ids]

AbsentFile == File(FALSE, FALSE, <<>>)

CkResult(op, success, message, ids, present) ==
  [op |-> op, success |-> success, message |-> message, ids |-> ids, present |-> present]

NoCkResult == CkResult("none", FALSE, "none", {}, FALSE)

\* the page as it loads: the input pane, no file imported, nothing processed
TabsIdle ==
  /\ activePane = "input"
  /\ importedFiles = 0
  /\ totalProcessedFiles = 0
  /\ processingFilesList = <<>>
  /\ statusMessage = "none"
  /\ processBtnDisabled = TRUE

\* the results page is not open and the checkpoint is not touched
ExtIdle ==
  /\ currentDirectory = <<>>
  /\ items = <<>>
  /\ dataTransfer = NoDrag
  /\ lastDrop = NoDrop
  /\ outbox = <<>>
  /\ served = <<>>
  /\ detached = {}
  /\ TabsIdle
  /\ checkpoint = AbsentFile
  /\ ckResult = NoCkResult

ParserIdle ==
  /\ pending = <<>>
  /\ chunks = <<>>
  /\ published = <<>>

\* ------------------------------------------------------- the specification
Init ==
  /\ mainWindow = TRUE
  /\ pythonProcess = Null
  /\ nspawn = 0
  /\ wk = [w \in Workers |-> NewWorker]
  /\ timers = {}
  /\ lastResult = NoResult
  /\ lastSent = <<>>
  /\ goToResultsDisabled = TRUE
  /\ ParserIdle
  /\ BusIdle
  /\ FsIdle
  /\ ExtIdle

Next ==
  \/ \E in \in StartInputs : StartPython(in[1], in[2])
  \/ \E in \in StartInputs : ProcessDocuments(in[1], in[2])
  \/ StopPython
  \/ \E t \in Workers : ForceKillTimer(t)
  \/ \E w \in Workers, output \in SampleChunks : StdoutData(w, output)
  \/ \E w \in Workers : StderrData(w)
  \/ \E w \in Workers : WorkerExit(w)
  \/ \E w \in Workers, code \in ExitCodes : CloseHandler(w, code)
  \/ WindowClosed
  \/ Activate

Spec == Init /\ [][Next]_vars

\* ------------------------------------------------- the stdout stream alone
\* One child runs and writes a stream of newline-terminated records; the
\* pipe hands the stream to the stdout callback in chunks cut anywhere.
Records ==
  { <<"LB", m, "RB", "NL">> : m \in Members } \cup
  { <<"LB", "TX", "RB", "NL">>, <<"TX", "NL">>, <<"PC", "NL">> }

RECURSIVE Flatten(_)
Flatten(ss) == IF ss = <<>> THEN <<>> ELSE Head(ss) \o Flatten(Tail(ss))

RECURSIVE SeqsUpTo(_, _)
SeqsUpTo(S, n) ==
  IF n = 0 THEN {<<>>}
  ELSE LET shorter == SeqsUpTo(S, n - 1) IN
       shorter \cup {Append(q, x) : q \in shorter, x \in S}

Streams == {Flatten(rs) : rs \in SeqsUpTo(Records, MaxRecords)}

InitParser ==
  /\ mainWindow = TRUE
  /\ pythonProcess = 1
  /\ nspawn = 1
  /\ wk = [w \in Workers |-> IF w = 1 THEN [NewWorker EXCEPT !.st = "alive"] ELSE NewWorker]
  /\ timers = {}
  /\ lastResult = Result("start-python", TRUE, FALSE, FALSE, 1, "none")
  /\ lastSent = <<>>
  /\ goToResultsDisabled = TRUE
  /\ pending \in Streams
  /\ chunks = <<>>
  /\ published = <<>>
  /\ BusIdle
  /\ FsIdle
  /\ ExtIdle

\* the stdout callback gets the next n bytes of the stream as one chunk
ParserData(n) ==
  /\ n \in 1..Len(pending)
  /\ LET output == SubSeq(pending, 1, n) IN
       /\ StdoutCallback(pythonProcess, output)
       /\ published' = published \o StdoutOnData(output, mainWindow, pythonProcess)
       /\ chunks' = Append(chunks, output)
       /\ pending' = SubSeq(pending, n + 1, Len(pending))
  /\ UNCHANGED <<busVars, fsVars, extVars>>

NextParser == \E n \in 1..Len(pending) : ParserData(n)

SpecParser == InitParser /\ [][NextParser]_vars

\* ------------------------------------------------- the event channels alone
\* The renderer registers callbacks through the preload bridge, the main
\* process sends events with webContents.send, and ipcRenderer emits each
\* event that arrives to the listeners of its channel.
InitSupervisor ==
  /\ mainWindow = TRUE
  /\ pythonProcess = Null
  /\ nspawn = 0
  /\ wk = [w \in Workers |-> NewWorker]
  /\ timers = {}
  /\ lastResult = NoResult
  /\ lastSent = <<>>
  /\ goToResultsDisabled = TRUE

InitBus == InitSupervisor /\ ParserIdle /\ BusIdle /\ FsIdle /\ ExtIdle

\* api.onProcessStatus(callback) and its four siblings: ipcRenderer.on adds
\* a wrapper of the callback at the end of the channel's listeners; throws
\* tells whether the callback throws when it is called
On(ch, throws) ==
  /\ Len(callbacks) < MaxListeners
  /\ callbacks' = Append(callbacks, [ch |-> ch, throws |-> throws])
  /\ listeners' = [listeners EXCEPT ![ch] = Append(@, Len(callbacks) + 1)]
  /\ UNCHANGED <<wire, nsent, received, stale, supVars, parVars, fsVars, extVars>>

\* mainWindow.webContents.send(ch, ...) in the main process
WebContentsSend(ch) ==
  /\ nsent < MaxEvents
  /\ nsent' = nsent + 1
  /\ wire' = Append(wire, [seq |-> nsent + 1, ch |-> ch])
  /\ UNCHANGED <<callbacks, listeners, received, stale, supVars, parVars, fsVars, extVars>>

\* a message pipe that hands over the newest message first
NextDelivered_Newest(w) == Len(w)

\* the message the renderer's pipe hands over next: the oldest one
NextDelivered(w) == 1

\* the wrappers (event, data) => callback(data) have no try/catch and emit
\* calls the listeners in order: the first one that throws ends the emit
RECURSIVE CalledListeners(_)
CalledListeners(ls) ==
  IF ls = <<>> THEN {}
  ELSE IF callbacks[Head(ls)].throws THEN {Head(ls)}
  ELSE {Head(ls)} \cup CalledListeners(Tail(ls))

\* ipcRenderer emits the next event of the pipe on its channel
Emit ==
  /\ wire # <<>>
  /\ LET i == NextDelivered(wire)
         e == wire[i]
         called == CalledListeners(listeners[e.ch]) IN
       /\ received' = [l \in ListenerIds |->
                         IF l \in called THEN Append(received[l], e.seq) ELSE received[l]]
       /\ wire' = SubSeq(wire, 1, i - 1) \o SubSeq(wire, i + 1, Len(wire))
  /\ UNCHANGED <<callbacks, listeners, nsent, stale, supVars, parVars, fsVars, extVars>>

\* a removeAllListeners that forgets the three python-* channels
RemovedChannels_ProcessOnly == {"process-status", "process-result"}

\* the channels api.removeAllListeners() clears
RemovedChannels ==
  {"process-status", "process-result", "python-output", "python-error", "python-exit"}

\* api.removeAllListeners()
RemoveAllListeners ==
  /\ listeners' = [ch \in BusChannels |->
                     IF ch \in RemovedChannels THEN <<>> ELSE listeners[ch]]
  /\ stale' = stale \cup (1..Len(callbacks))
  /\ UNCHANGED <<callbacks, wire, nsent, received, supVars, parVars, fsVars, extVars>>

NextBus ==
  \/ \E ch \in BusChannels, throws \in BOOLEAN : On(ch, throws)
  \/ \E ch \in BusChannels : WebContentsSend(ch)
  \/ Emit
  \/ RemoveAllListeners

SpecBus == InitBus /\ [][NextBus]_vars

\* ------------------------------------------------------ paths (node:path)
\* A request path is the sequence of its segments; an absolute one starts
\* with the segment "/"; <<>> is the empty string.
IsAbsolute(p) == p # <<>> /\ Head(p) = "/"

\* path.normalize of the segments below "/": "." and the empty segment are
\* dropped, ".." removes the segment before it and is dropped at "/"
RECURSIVE Normalize(_, _)
Normalize(acc, p) ==
  IF p = <<>> THEN acc
  ELSE IF Head(p) \in {".", ""} THEN Normalize(acc, Tail(p))
  ELSE IF Head(p) = ".."
  THEN Normalize(IF acc = <<>> THEN acc ELSE SubSeq(acc, 1, Len(acc) - 1), Tail(p))
  ELSE Normalize(Append(acc, Head(p)), Tail(p))

\* path.join(dir, p) for a location dir and a relative p
Join(dir, p) == Normalize(dir, p)

\* the location an absolute request path names
Absolute(p) == Normalize(<<>>, Tail(p))

\* path.dirname of a location
Dirname(loc) == IF loc = <<>> THEN loc ELSE SubSeq(loc, 1, Len(loc) - 1)

\* path.isAbsolute(p) ? p : path.join(processedDir, p)
Resolve(p) == IF IsAbsolute(p) THEN Absolute(p) ELSE Join(ProcessedDir, p)

\* filePath.startsWith('processed/')
StartsWithProcessed(p) == Len(p) >= 2 /\ Head(p) = "processed"

\* the resolution of delete-file and get-file-url: absolute paths as they
\* are, a leading 'processed/' stripped, everything else under processedDir
ResolveStripped(p) ==
  IF IsAbsolute(p) THEN Absolute(p)
  ELSE IF StartsWithProcessed(p) THEN Join(ProcessedDir, Tail(p))
  ELSE Join(ProcessedDir, p)

\* the resolution of get-directory-contents
ResolveList(p) ==
  IF p = <<>> \/ p = <<"processed">> THEN ProcessedDir
  ELSE IF StartsWithProcessed(p) THEN Join(ProcessedDir, Tail(p))
  ELSE Resolve(p)

\* length of the longest common prefix of two locations
RECURSIVE CommonLen(_, _)
CommonLen(a, b) ==
  IF a = <<>> \/ b = <<>> \/ Head(a) # Head(b) THEN 0
  ELSE 1 + CommonLen(Tail(a), Tail(b))

\* path.relative(from, to) of two locations
Relative(from, to) ==
  LET c == CommonLen(from, to) IN
  [i \in 1..(Len(from) - c) |-> ".."] \o SubSeq(to, c + 1, Len(to))

\* the names of the model in the order of their UTF-16 code units
NameOrder ==
  <<"F", "G", "a.json", "a.pdf", "b.json", "b.pdf", "data", "etc",
    "metadata", "processed", "v1.2", "v1.json", "v1.pdf", "x.json", "x.pdf">>

HasDot(n) ==
  n \in {"a.json", "a.pdf", "b.json", "b.pdf", "v1.2", "v1.json", "v1.pdf",
         "x.json", "x.pdf"}

\* name.replace(/\.[^.]+$/, '.json') of a name that has a dot
JsonName(n) ==
  CASE n \in {"a.json", "a.pdf"} -> "a.json"
    [] n \in {"b.json", "b.pdf"} -> "b.json"
    [] n \in {"v1.2", "v1.json", "v1.pdf"} -> "v1.json"
    [] n \in {"x.json", "x.pdf"} -> "x.json"
    [] OTHER -> n

\* the last index of a segment of loc that has a dot, 0 when there is none
RECURSIVE LastDotted(_)
LastDotted(loc) ==
  IF loc = <<>> THEN 0
  ELSE IF HasDot(loc[Len(loc)]) THEN Len(loc)
  ELSE LastDotted(SubSeq(loc, 1, Len(loc) - 1))

\* metadataPath.replace(/\.[^.]+$/, '.json') on the whole path: the text
\* from the last dot of the path on is replaced, in whichever segment it is
ReplaceExtension(loc) ==
  LET k == LastDotted(loc) IN
  IF k = 0 THEN loc ELSE Append(SubSeq(loc, 1, k - 1), JsonName(loc[k]))

\* the sidecar delete-file computes for a file at location loc
MetadataJsonPath(loc) ==
  ReplaceExtension(Join(MetadataDir, Relative(ProcessedDir, loc)))

\* ------------------------------------------------------- the tree (node:fs)
ExistsSync(tree, loc) == loc \in DOMAIN tree

IsDirectory(tree, loc) == ExistsSync(tree, loc) /\ tree[loc] = "dir"

IsPrefix(a, b) == Len(a) <= Len(b) /\ SubSeq(b, 1, Len(a)) = a

\* the locations at and below loc
Under(tree, loc) == {l \in DOMAIN tree : IsPrefix(loc, l)}

Restrict(tree, locs) == [l \in locs |-> tree[l]]

\* fs.unlinkSync(loc): the error it throws, "none" when it removes the file
UnlinkError(tree, loc) ==
  IF ~ExistsSync(tree, loc) THEN "ENOENT"
  ELSE IF IsDirectory(tree, loc) THEN "EPERM"
  ELSE "none"

Unlink(tree, loc) == Restrict(tree, DOMAIN tree \ {loc})

\* a rename that does not need the directory of dst to exist
RenameError_NoParentCheck(tree, src, dst) ==
  IF ~ExistsSync(tree, src) THEN "ENOENT" ELSE "none"

\* fs.renameSync(src, dst): the error it throws, "none" when it renames
RenameError(tree, src, dst) ==
  IF ~ExistsSync(tree, src) THEN "ENOENT"
  ELSE IF ~ExistsSync(tree, Dirname(dst)) THEN "ENOENT"
  ELSE IF ~IsDirectory(tree, Dirname(dst)) THEN "ENOTDIR"
  ELSE IF src = dst THEN "none"
  ELSE IF IsPrefix(src, dst) THEN "EINVAL"
  ELSE IF ~ExistsSync(tree, dst) THEN "none"
  ELSE IF IsDirectory(tree, src) /\ ~IsDirectory(tree, dst) THEN "ENOTDIR"
  ELSE IF ~IsDirectory(tree, src) /\ IsDirectory(tree, dst) THEN "EISDIR"
  ELSE IF IsDirectory(tree, dst) /\ Under(tree, dst) # {dst} THEN "ENOTEMPTY"
  ELSE "none"

\* a rename that leaves the source where it was
Rename_KeepsSource(tree, src, dst) ==
  LET moved == {dst \o SubSeq(l, Len(src) + 1, Len(l)) : l \in Under(tree, src)}
      kept == DOMAIN tree \ Under(tree, dst) IN
  [l \in kept \cup moved |->
     IF l \in moved THEN tree[src \o SubSeq(l, Len(dst) + 1, Len(l))] ELSE tree[l]]

\* the tree after a rename(2) that succeeds: src and all below it are at
\* dst, and what was at dst is replaced
Rename(tree, src, dst) ==
  LET moved == {dst \o SubSeq(l, Len(src) + 1, Len(l)) : l \in Under(tree, src)}
      kept == DOMAIN tree \ (Under(tree, src) \cup Under(tree, dst)) IN
  IF src = dst THEN tree
  ELSE [l \in kept \cup moved |->
          IF l \in moved THEN tree[src \o SubSeq(l, Len(dst) + 1, Len(l))] ELSE tree[l]]

Prefixes(loc) == {SubSeq(loc, 1, n) : n \in 0..Len(loc)}

\* fs.mkdirSync(loc, {recursive: true}): the error it throws
MkdirError(tree, loc) ==
  IF \E q \in Prefixes(loc) : ExistsSync(tree, q) /\ ~IsDirectory(tree, q)
  THEN "ENOTDIR" ELSE "none"

Mkdir(tree, loc) ==
  [l \in DOMAIN tree \cup Prefixes(loc) |-> IF l \in DOMAIN tree THEN tree[l] ELSE "dir"]

\* the names in directory loc
Entries(tree, loc) == {l[Len(l)] : l \in {m \in DOMAIN tree : m # loc /\ Dirname(m) = loc}}

\* fs.readdirSync(loc): the names in the order the file system gives them
Readdir(tree, loc, order) == SelectSeq(order, LAMBDA n : n \in Entries(tree, loc))

\* ------------------------------------------------- the file handlers alone
Rank(n) == CHOOSE i \in 1..Len(NameOrder) : NameOrder[i] = n

RECURSIVE Insert(_, _)
Insert(x, sorted) ==
  IF sorted = <<>> THEN <<x>>
  ELSE IF Rank(x) < Rank(Head(sorted)) THEN <<x>> \o sorted
  ELSE <<Head(sorted)>> \o Insert(x, Tail(sorted))

\* an Array.prototype.sort() that leaves the array as it is
JsSort_None(q) == q

\* Array.prototype.sort() without a comparator, on names
RECURSIVE JsSort(_)
JsSort(q) == IF q = <<>> THEN <<>> ELSE Insert(Head(q), JsSort(Tail(q)))

\* the value a file handler returns; the result of get-directory-contents
\* has no success field and has an error field exactly when it failed:
\* success stands for the absence of error there
FsResult(op, success, error, dirs, files) ==
  [op |-> op, success |-> success, error |-> error, dirs |-> dirs, files |-> files]

AlreadyExistsFile == "A file or folder with this name already exists"
AlreadyExistsFolder == "A folder with this name already exists"

\* ipcMain.handle('get-directory-contents'): the value it returns
ListReturn(tree, dirPath, order) ==
  LET targetPath == ResolveList(dirPath) IN
  IF ~ExistsSync(tree, targetPath)
  THEN FsResult("get-directory-contents", FALSE, "Directory not found", <<>>, <<>>)
  ELSE IF ~IsDirectory(tree, targetPath)
  THEN FsResult("get-directory-contents", FALSE, "ENOTDIR", <<>>, <<>>)
  ELSE LET contents == Readdir(tree, targetPath, order)
           dirs == SelectSeq(contents, LAMBDA n : IsDirectory(tree, Append(targetPath, n)))
           files == SelectSeq(contents, LAMBDA n : ~IsDirectory(tree, Append(targetPath, n)))
       IN FsResult("get-directory-contents", TRUE, "none", JsSort(dirs), JsSort(files))

GetDirectoryContents(dirPath, order) ==
  /\ fsCall = NoFsCall
  /\ fsCall' = <<"get-directory-contents", dirPath>>
  /\ fsResult' = ListReturn(fs, dirPath, order)
  /\ UNCHANGED <<fs, nmut, supVars, parVars, busVars>>

\* ipcMain.handle('delete-file'); sidecarFails: unlinkSync of the sidecar
\* throws (EACCES, EBUSY) though the file exists
DeleteFile(filePath, sidecarFails) ==
  LET absoluteFilePath == ResolveStripped(filePath)
      metadataJsonPath == MetadataJsonPath(absoluteFilePath) IN
  /\ fsCall = NoFsCall
  /\ fsCall' = <<"delete-file", filePath>>
  /\ IF ~ExistsSync(fs, absoluteFilePath)
     THEN /\ fsResult' = FsResult("delete-file", FALSE, "File not found", <<>>, <<>>)
          /\ UNCHANGED <<fs, nmut>>
     ELSE IF UnlinkError(fs, absoluteFilePath) # "none"
     THEN /\ fsResult' = FsResult("delete-file", FALSE,
                                  UnlinkError(fs, absoluteFilePath), <<>>, <<>>)
          /\ UNCHANGED <<fs, nmut>>
     ELSE LET after == Unlink(fs, absoluteFilePath) IN
          /\ nmut < MaxMutations
          /\ nmut' = nmut + 1
          /\ IF ~ExistsSync(after, metadataJsonPath)
             THEN /\ fsResult' = FsResult("delete-file", TRUE, "none", <<>>, <<>>)
                  /\ fs' = after
             ELSE IF UnlinkError(after, metadataJsonPath) # "none"
             THEN /\ fsResult' = FsResult("delete-file", FALSE,
                                          UnlinkError(after, metadataJsonPath), <<>>, <<>>)
                  /\ fs' = after
             ELSE IF sidecarFails
             THEN /\ fsResult' = FsResult("delete-file", FALSE, "EACCES", <<>>, <<>>)
                  /\ fs' = after
             ELSE /\ fsResult' = FsResult("delete-file", TRUE, "none", <<>>, <<>>)
                  /\ fs' = Unlink(after, metadataJsonPath)
  /\ UNCHANGED <<supVars, parVars, busVars>>

\* rename-file: sourcePath
SourcePath(oldPath) == Resolve(oldPath)

\* rename-file: targetPath; newName is "" and newPath is <<>> when absent
TargetPath(oldPath, newName, newPath) ==
  IF newPath # <<>> THEN Resolve(newPath)
  ELSE Join(Dirname(SourcePath(oldPath)), <<newName>>)

\* a rename-file without the existsSync test of the target
TargetTaken_NoCheck(tree, targetPath) == FALSE

\* rename-file: fs.existsSync(targetPath)
TargetTaken(tree, targetPath) == ExistsSync(tree, targetPath)

\* ipcMain.handle('rename-file')
RenameFile(oldPath, newName, newPath) ==
  LET sourcePath == SourcePath(oldPath)
      targetPath == TargetPath(oldPath, newName, newPath) IN
  /\ fsCall = NoFsCall
  /\ fsCall' = <<"rename-file", oldPath, newName, newPath>>
  /\ IF oldPath = <<>> \/ (newName = "" /\ newPath = <<>>)
     THEN /\ fsResult' = FsResult("rename-file", FALSE, "Invalid parameters", <<>>, <<>>)
          /\ UNCHANGED <<fs, nmut>>
     ELSE IF TargetTaken(fs, targetPath)
     THEN /\ fsResult' = FsResult("rename-file", FALSE, AlreadyExistsFile, <<>>, <<>>)
          /\ UNCHANGED <<fs, nmut>>
     ELSE IF RenameError(fs, sourcePath, targetPath) # "none"
     THEN /\ fsResult' = FsResult("rename-file", FALSE,
                                  RenameError(fs, sourcePath, targetPath), <<>>, <<>>)
          /\ UNCHANGED <<fs, nmut>>
     ELSE /\ nmut < MaxMutations
          /\ nmut' = nmut + 1
          /\ fsResult' = FsResult("rename-file", TRUE, "none", <<>>, <<>>)
          /\ fs' = Rename(fs, sourcePath, targetPath)
  /\ UNCHANGED <<supVars, parVars, busVars>>

\* create-folder: targetPath
FolderTarget(folderPath, folderName) ==
  IF IsAbsolute(folderPath) THEN Join(Absolute(folderPath), <<folderName>>)
  ELSE Join(ProcessedDir, Append(folderPath, folderName))

\* ipcMain.handle('create-folder')
CreateFolder(folderPath, folderName) ==
  LET targetPath == FolderTarget(folderPath, folderName) IN
  /\ fsCall = NoFsCall
  /\ fsCall' = <<"create-folder", folderPath, folderName>>
  /\ IF folderPath = <<>> \/ folderName = ""
     THEN /\ fsResult' = FsResult("create-folder", FALSE, "Invalid parameters", <<>>, <<>>)
          /\ UNCHANGED <<fs, nmut>>
     ELSE IF ExistsSync(fs, targetPath)
     THEN /\ fsResult' = FsResult("create-folder", FALSE, AlreadyExistsFolder, <<>>, <<>>)
          /\ UNCHANGED <<fs, nmut>>
     ELSE IF MkdirError(fs, targetPath) # "none"
     THEN /\ fsResult' = FsResult("create-folder", FALSE,
                                  MkdirError(fs, targetPath), <<>>, <<>>)
          /\ UNCHANGED <<fs, nmut>>
     ELSE /\ nmut < MaxMutations
          /\ nmut' = nmut + 1
          /\ fsResult' = FsResult("create-folder", TRUE, "none", <<>>, <<>>)
          /\ fs' = Mkdir(fs, targetPath)
  /\ UNCHANGED <<supVars, parVars, busVars>>

\* the promise of ipcRenderer.invoke resolves: the renderer has the result
\* and may send its next request
Reply ==
  /\ fsCall # NoFsCall
  /\ fsCall' = NoFsCall
  /\ fsResult' = NoFsResult
  /\ UNCHANGED <<fs, nmut, supVars, parVars, busVars>>

\* the request paths tried: the empty string, the root in its three
\* spellings, a document, a folder, a document in the folder, and two
\* paths that leave the root
ReqPaths ==
  { <<>>, <<".">>, <<"processed">>, <<"a.pdf">>, <<"F">>, <<"F", "a.pdf">>,
    <<"..", "..", "etc", "x.pdf">>, <<"/", "etc", "x.pdf">> }

NewNames == {"b.pdf", "G"}

FolderNames == {"F", "G"}

RECURSIVE Reverse(_)
Reverse(q) == IF q = <<>> THEN <<>> ELSE Append(Reverse(Tail(q)), Head(q))

\* readdir gives no order: the reverse of the sorted one, and a mixed one
ReaddirOrders ==
  { Reverse(NameOrder),
    <<"b.pdf", "G", "a.pdf", "x.pdf", "F", "processed", "a.json", "etc",
      "b.json", "data", "x.json", "metadata", "v1.pdf", "v1.2", "v1.json">> }

\* the data of a rename-file request: newName is read only without newPath;
\* one request without oldPath and one with neither newName nor newPath
RenameInputs ==
  {<<oldPath, newName, <<>>>> : oldPath \in ReqPaths \ {<<>>}, newName \in NewNames} \cup
  {<<oldPath, "", newPath>> : oldPath \in ReqPaths \ {<<>>}, newPath \in ReqPaths \ {<<>>}} \cup
  {<< <<>>, "G", <<>> >>, << <<"a.pdf">>, "", <<>> >>}

\* the data of a create-folder request; one request without a folder name
FolderInputs ==
  {<<folderPath, folderName>> : folderPath \in ReqPaths, folderName \in FolderNames} \cup
  {<< <<".">>, "" >>}

InitFs ==
  /\ InitSupervisor /\ ParserIdle /\ BusIdle
  /\ fs = InitialTree
  /\ nmut = 0
  /\ fsCall = NoFsCall
  /\ fsResult = NoFsResult
  /\ ExtIdle

NextFs ==
  \/ \E dirPath \in ReqPaths, order \in ReaddirOrders :
       GetDirectoryContents(dirPath, order) /\ UNCHANGED extVars
  \/ \E filePath \in ReqPaths, sidecarFails \in BOOLEAN :
       DeleteFile(filePath, sidecarFails) /\ UNCHANGED extVars
  \/ \E data \in RenameInputs : RenameFile(data[1], data[2], data[3]) /\ UNCHANGED extVars
  \/ \E data \in FolderInputs : CreateFolder(data[1], data[2]) /\ UNCHANGED extVars
  \/ Reply /\ UNCHANGED extVars

SpecFs == InitFs /\ [][NextFs]_vars

\* ------------------------------------------------- the results explorer
\* The results page (part_005) lists a directory of the tree, and a drop of
\* a dragged item on a folder item asks the main process to move it.  The
\* requests wait in outbox until the main process handles them.
MaxPending == 2        \* requests sent and not yet handled

\* createFolderItem, createFileItem: drops counts the item's drop listeners
FolderItem(name) == [name |-> name, type |-> "folder", drops |-> 0]
FileItem(name) == [name |-> name, type |-> "file", drops |-> 0]

\* setupDragAndDrop: every folder item gets one more drop listener
SetupDragAndDrop(its) ==
  [i \in 1..Len(its) |->
     IF its[i].type = "folder" THEN [its[i] EXCEPT !.drops = @ + 1] ELSE its[i]]

\* displayDirectoryContents: #fileExplorer is emptied and gets new items,
\* folders first.  (The localeCompare sorts keep the order the handler
\* returned for the names of this model.)
DisplayDirectoryContents(data) ==
  IF data.dirs = <<>> /\ data.files = <<>> THEN <<>>
  ELSE SetupDragAndDrop([i \in 1..Len(data.dirs) |-> FolderItem(data.dirs[i])] \o
                        [i \in 1..Len(data.files) |-> FileItem(data.files[i])])

\* a drop listener without the test for a folder dropped onto itself
DropRequests_NoSelfCheck(cur, sourceName, sourceType, targetName) ==
  << <<Append(cur, sourceName), "", cur \o <<targetName, sourceName>> >> >>

\* the drop listener of a folder item: the rename-file requests it sends,
\* as <<oldPath, newName, newPath>> (the request has no newName)
DropRequests(cur, sourceName, sourceType, targetName) ==
  IF sourceName = targetName /\ sourceType = "folder" THEN <<>>
  ELSE << <<Append(cur, sourceName), "", cur \o <<targetName, sourceName>> >> >>

RECURSIVE Repeat(_, _)
Repeat(q, n) == IF n = 0 THEN <<>> ELSE q \o Repeat(q, n - 1)

\* the paths the page can ask for: the home link and the other links of
\* the breadcrumb, the current directory (reload), a folder item opened
NavTargets ==
  {<<"processed">>, currentDirectory} \cup
  {SubSeq(currentDirectory, 1, k) : k \in 1..(Len(currentDirectory) - 1)} \cup
  {Append(currentDirectory, items[i].name) :
     i \in {j \in 1..Len(items) : items[j].type = "folder"}}

\* loadFileExplorer(dirPath) with the handler's answer: an answer with an
\* error leaves the page as it is
LoadFileExplorer(dirPath, order) ==
  /\ dirPath \in NavTargets
  /\ GetDirectoryContents(dirPath, order)
  /\ IF fsResult'.error # "none"
     THEN UNCHANGED <<currentDirectory, items>>
     ELSE /\ currentDirectory' = dirPath
          /\ items' = DisplayDirectoryContents(fsResult')
  /\ lastDrop' = NoDrop
  /\ UNCHANGED <<dataTransfer, outbox, served, detached, tabVars, ckVars>>

\* the dragstart listener of item i
DragStart(i) ==
  /\ i \in 1..Len(items)
  /\ dataTransfer' = [name |-> items[i].name, type |-> items[i].type]
  /\ lastDrop' = NoDrop
  /\ UNCHANGED <<currentDirectory, items, outbox, served, detached, tabVars, ckVars,
                 fsVars, supVars, parVars, busVars>>

\* the drag ends without a drop on a folder item
DragEnd ==
  /\ dataTransfer # NoDrag
  /\ dataTransfer' = NoDrag
  /\ lastDrop' = NoDrop
  /\ UNCHANGED <<currentDirectory, items, outbox, served, detached, tabVars, ckVars,
                 fsVars, supVars, parVars, busVars>>

\* the dragged item is dropped on item i: every drop listener of the item
\* runs, and the drag is over
Drop(i) ==
  /\ i \in 1..Len(items) /\ items[i].drops > 0
  /\ dataTransfer # NoDrag
  /\ Len(outbox) < MaxPending
  /\ LET requests == Repeat(DropRequests(currentDirectory, dataTransfer.name,
                                         dataTransfer.type, items[i].name),
                            items[i].drops) IN
       /\ lastDrop' = [source |-> dataTransfer.name, type |-> dataTransfer.type,
                       target |-> items[i].name, requests |-> requests]
       /\ outbox' = outbox \o requests
  /\ dataTransfer' = NoDrag
  /\ UNCHANGED <<currentDirectory, items, served, detached, tabVars, ckVars,
                 fsVars, supVars, parVars, busVars>>

\* the main process handles the oldest request of the page
InvokeRenameFile ==
  /\ outbox # <<>>
  /\ RenameFile(outbox[1][1], outbox[1][2], outbox[1][3])
  /\ outbox' = Tail(outbox)
  /\ lastDrop' = NoDrop
  /\ UNCHANGED <<currentDirectory, items, dataTransfer, served, detached, tabVars, ckVars>>

\* the then() of the drop's renameFile: a success reloads the directory
\* (loadFileExplorer(currentDirectory), with the handler's answer)
RenameResolved(order) ==
  /\ fsCall[1] = "rename-file"
  /\ IF fsResult.success
     THEN LET data == ListReturn(fs, currentDirectory, order) IN
          /\ fsCall' = <<"get-directory-contents", currentDirectory>>
          /\ fsResult' = data
          /\ items' = IF data.error # "none" THEN items
                      ELSE DisplayDirectoryContents(data)
     ELSE /\ fsCall' = NoFsCall
          /\ fsResult' = NoFsResult
          /\ items' = items
  /\ lastDrop' = NoDrop
  /\ UNCHANGED <<fs, nmut, currentDirectory, dataTransfer, outbox, served, detached, tabVars, ckVars,
                 supVars, parVars, busVars>>

\* the create button of showAddFolderDialog, with the handler's run: the
\* folder name is trimmed and not empty
AddFolder(folderName) ==
  /\ CreateFolder(currentDirectory, folderName)
  /\ lastDrop' = NoDrop
  /\ UNCHANGED <<currentDirectory, items, dataTransfer, outbox, served, detached, tabVars, ckVars>>

\* the then() of the dialog's createFolder: a success reloads the directory
CreateResolved(order) ==
  /\ fsCall[1] = "create-folder"
  /\ IF fsResult.success
     THEN LET data == ListReturn(fs, currentDirectory, order) IN
          /\ fsCall' = <<"get-directory-contents", currentDirectory>>
          /\ fsResult' = data
          /\ items' = IF data.error # "none" THEN items
                      ELSE DisplayDirectoryContents(data)
     ELSE /\ fsCall' = NoFsCall
          /\ fsResult' = NoFsResult
          /\ items' = items
  /\ lastDrop' = NoDrop
  /\ UNCHANGED <<fs, nmut, currentDirectory, dataTransfer, outbox, served, detached, tabVars, ckVars,
                 supVars, parVars, busVars>>

\* the rename button of showRenameDialog for item i: the request it sends
RenameItem(i, newName) ==
  /\ i \in 1..Len(items)
  /\ Len(outbox) < MaxPending
  /\ outbox' = Append(outbox, <<Append(currentDirectory, items[i].name), newName, <<>> >>)
  /\ lastDrop' = NoDrop
  /\ UNCHANGED <<currentDirectory, items, dataTransfer, served, detached, tabVars, ckVars,
                 fsVars, supVars, parVars, busVars>>

\* the then() of loadFileExplorer has run
ListResolved ==
  /\ fsCall[1] = "get-directory-contents"
  /\ Reply
  /\ lastDrop' = NoDrop
  /\ UNCHANGED <<currentDirectory, items, dataTransfer, outbox, served, detached, tabVars, ckVars>>

\* the tree with an empty folder F in the root
TreeWithF == InitialTree @@ (Append(ProcessedDir, "F") :> "dir")

\* the tree with a folder named processed in the root, holding a document
\* and a folder
TreeNested ==
  TreeWithF @@
  (Append(ProcessedDir, "processed") :> "dir") @@
  (ProcessedDir \o <<"processed", "a.pdf">> :> "C") @@
  (ProcessedDir \o <<"processed", "processed">> :> "dir")

ExplorerTrees ==
  {InitialTree, TreeWithF, TreeNested,
   TreeWithF @@ (Append(ProcessedDir, "G") :> "dir")}

InitExplorer ==
  /\ InitSupervisor /\ ParserIdle /\ BusIdle
  /\ fs \in ExplorerTrees
  /\ nmut = 0
  /\ fsCall = NoFsCall
  /\ fsResult = NoFsResult
  /\ currentDirectory = <<"processed">>
  /\ items = <<>>
  /\ dataTransfer = NoDrag
  /\ lastDrop = NoDrop
  /\ outbox = <<>>
  /\ served = <<>>
  /\ detached = {}
  /\ TabsIdle
  /\ checkpoint = AbsentFile
  /\ ckResult = NoCkResult

NextExplorer ==
  \/ \E dirPath \in NavTargets, order \in ReaddirOrders : LoadFileExplorer(dirPath, order)
  \/ \E i \in 1..Len(items) : DragStart(i)
  \/ DragEnd
  \/ \E i \in 1..Len(items) : Drop(i)
  \/ InvokeRenameFile
  \/ \E order \in ReaddirOrders : RenameResolved(order)
  \/ ListResolved

SpecExplorer == InitExplorer /\ [][NextExplorer]_vars

\* the results page with its two dialogs and without drag and drop
InitDialogs ==
  /\ InitExplorer
  /\ fs \in {InitialTree, TreeWithF}

NextDialogs ==
  \/ \E dirPath \in NavTargets, order \in ReaddirOrders : LoadFileExplorer(dirPath, order)
  \/ \E folderName \in FolderNames : AddFolder(folderName)
  \/ \E order \in ReaddirOrders : CreateResolved(order)
  \/ \E i \in 1..Len(items), newName \in NewNames : RenameItem(i, newName)
  \/ InvokeRenameFile
  \/ \E order \in ReaddirOrders : RenameResolved(order)
  \/ ListResolved

SpecDialogs == InitDialogs /\ [][NextDialogs]_vars

\* ------------------------------------------------ two requests in flight
\* Two rename-file requests for the same destination are sent before the
\* main process handles either.  The handler has no await: the main process
\* runs it to its return before it takes the next request.
RequestsValid(data) == data[1] # <<>> /\ (data[2] # "" \/ data[3] # <<>>)

RacePairs ==
  {pair \in RenameInputs \X RenameInputs :
     /\ RequestsValid(pair[1]) /\ RequestsValid(pair[2])
     /\ TargetPath(pair[1][1], pair[1][2], pair[1][3])
          = TargetPath(pair[2][1], pair[2][2], pair[2][3])}

InitRace ==
  /\ InitSupervisor /\ ParserIdle /\ BusIdle
  /\ fs \in {InitialTree, TreeWithF}
  /\ nmut = 0
  /\ fsCall = NoFsCall
  /\ fsResult = NoFsResult
  /\ currentDirectory = <<>>
  /\ items = <<>>
  /\ dataTransfer = NoDrag
  /\ lastDrop = NoDrop
  /\ outbox \in RacePairs
  /\ served = <<>>
  /\ detached = {}
  /\ TabsIdle
  /\ checkpoint = AbsentFile
  /\ ckResult = NoCkResult

\* the main process handles request i, whichever reached it first
Serve(i) ==
  /\ i \in 1..Len(outbox)
  /\ \A k \in 1..Len(served) : served[k].req # i
  /\ RenameFile(outbox[i][1], outbox[i][2], outbox[i][3])
  /\ served' = Append(served, [req |-> i, result |-> fsResult', tree |-> fs'])
  /\ UNCHANGED <<uiVars, detached, tabVars, ckVars>>

NextRace ==
  \/ \E i \in 1..2 : Serve(i)
  \/ Reply /\ UNCHANGED extVars

SpecRace == InitRace /\ [][NextRace]_vars

\* ------------------------------------------------------- the checkpoint
\* data/checkpoint.json holds the identifiers of the documents done.  The
\* worker loads it and appends to it; the main process only resets it.
Ids == {"i1", "i2", "i3", "i4"}

\* load(): the identifiers of the file; none when the file is absent or
\* does not parse
Load(file) ==
  IF file.exists /\ file.parses THEN {file.ids[i] : i \in 1..Len(file.ids)} ELSE {}

\* an append that writes the identifier without looking for it
Appended_NoMembershipTest(file, id) ==
  File(TRUE, TRUE, Append(IF file.exists /\ file.parses THEN file.ids ELSE <<>>, id))

\* append(id): the file it leaves; the file is created when it is absent
Appended(file, id) ==
  IF id \in Load(file) THEN file
  ELSE File(TRUE, TRUE, Append(IF file.exists /\ file.parses THEN file.ids ELSE <<>>, id))

\* a resetCheckpoint whose existsSync test is the wrong way round
ResetFile_Inverted(file, writeFails) ==
  IF ~file.exists /\ ~writeFails THEN File(TRUE, TRUE, <<>>) ELSE file

\* resetCheckpoint: the file it leaves; writeFails: writeFileSync throws
ResetFile(file, writeFails) ==
  IF file.exists /\ ~writeFails THEN File(TRUE, TRUE, <<>>) ELSE file

\* resetCheckpoint: the value it returns
ResetReturn(file, writeFails) ==
  IF file.exists
  THEN IF writeFails THEN CkResult("resetCheckpoint", FALSE, "EACCES", {}, FALSE)
       ELSE CkResult("resetCheckpoint", TRUE, "none", {}, FALSE)
  ELSE CkResult("resetCheckpoint", TRUE, "No checkpoint file found", {}, FALSE)

\* ipcMain.handle('resetCheckpoint')
ResetCheckpoint(writeFails) ==
  /\ checkpoint' = ResetFile(checkpoint, writeFails)
  /\ ckResult' = ResetReturn(checkpoint, writeFails)
  /\ UNCHANGED <<supVars, parVars, busVars, fsVars, uiVars, served, detached, tabVars>>

\* the worker appends the identifier of a document it has done
CheckpointAppend(id) ==
  /\ checkpoint' = Appended(checkpoint, id)
  /\ ckResult' = CkResult("append", TRUE, "none", {id}, id \in Load(checkpoint))
  /\ UNCHANGED <<supVars, parVars, busVars, fsVars, uiVars, served, detached, tabVars>>

\* the worker loads the checkpoint at the start of a run
CheckpointLoad ==
  /\ ckResult' = CkResult("load", TRUE, "none", Load(checkpoint), FALSE)
  /\ UNCHANGED <<checkpoint, supVars, parVars, busVars, fsVars, uiVars, served, detached, tabVars>>

\* no file, a file that does not parse, or an empty list
InitCheckpoint ==
  /\ InitSupervisor /\ ParserIdle /\ BusIdle /\ FsIdle
  /\ currentDirectory = <<>>
  /\ items = <<>>
  /\ dataTransfer = NoDrag
  /\ lastDrop = NoDrop
  /\ outbox = <<>>
  /\ served = <<>>
  /\ detached = {}
  /\ TabsIdle
  /\ checkpoint \in {AbsentFile, File(TRUE, FALSE, <<>>), File(TRUE, TRUE, <<>>)}
  /\ ckResult = NoCkResult

NextCheckpoint ==
  \/ \E writeFails \in BOOLEAN : ResetCheckpoint(writeFails)
  \/ \E id \in Ids : CheckpointAppend(id)
  \/ CheckpointLoad

SpecCheckpoint == InitCheckpoint /\ [][NextCheckpoint]_vars

\* ------------------------------------------------------ delete-file alone
\* a document renamed to a name with no extension, and a file of that name
\* in the metadata directory
TreeNoExtension ==
  InitialTree @@ (Append(ProcessedDir, "G") :> "C") @@ (Append(MetadataDir, "G") :> "MG")

\* document v1.pdf with its sidecar, and a folder v1.2 holding a file with
\* no extension
TreeDottedFolder ==
  InitialTree @@
  (Append(ProcessedDir, "v1.pdf") :> "V") @@ (Append(MetadataDir, "v1.json") :> "MV") @@
  (Append(ProcessedDir, "v1.2") :> "dir") @@ (ProcessedDir \o <<"v1.2", "G">> :> "C")

DeletePaths ==
  { <<"a.pdf">>, <<"b.pdf">>, <<"processed", "a.pdf">>, <<"G">>, <<"v1.pdf">>,
    <<"v1.2">>, <<"v1.2", "G">> }

InitDelete ==
  /\ InitSupervisor /\ ParserIdle /\ BusIdle /\ ExtIdle
  /\ fs \in {InitialTree, TreeNoExtension, TreeDottedFolder}
  /\ nmut = 0
  /\ fsCall = NoFsCall
  /\ fsResult = NoFsResult

NextDelete ==
  \/ \E filePath \in DeletePaths, sidecarFails \in BOOLEAN :
       DeleteFile(filePath, sidecarFails) /\ UNCHANGED extVars
  \/ Reply /\ UNCHANGED extVars

SpecDelete == InitDelete /\ [][NextDelete]_vars

\* ------------------------------------------------ the window and its children
\* The supervisor started with a usable key, with one history variable: the
\* closed callback of the window also records the child it signalled.
WindowClosedRecorded ==
  /\ ClosedCallback
  /\ detached' = IF pythonProcess # Null /\ Alive(pythonProcess)
                 THEN detached \cup {pythonProcess}
                 ELSE detached
  /\ UNCHANGED <<parVars, busVars, fsVars, uiVars, served, tabVars, ckVars>>

\* the stdout chunks of the window specification: a status and a result
WindowChunks == { <<"LB", "ST", "RB", "NL">>, <<"LB", "SUT", "RB", "NL">> }

InitWindow == Init

NextWindow ==
  \/ StartPython("valid", "ok")
  \/ StopPython
  \/ \E t \in Workers : ForceKillTimer(t)
  \/ \E w \in Workers, output \in WindowChunks : StdoutData(w, output)
  \/ \E w \in Workers : StderrData(w)
  \/ \E w \in Workers : WorkerExit(w)
  \/ \E w \in Workers, code \in ExitCodes : CloseHandler(w, code)
  \/ WindowClosedRecorded
  \/ Activate

SpecWindow == InitWindow /\ [][NextWindow]_vars

\* ------------------------------------------------------- the tabs of the page
\* Two scripts of the page add a click listener to every .tab-item: the
\* renderer (setupTabNavigation) and the tab handler script.  A click runs
\* both.
MaxFiles == 2

\* the data-tab values of the .tab-item elements
TabIds == {"input", "processing", "results"}

\* everything but goToResultsDisabled and the tab variables
tabRest == <<mainWindow, pythonProcess, nspawn, wk, timers, lastResult, lastSent,
             parVars, busVars, fsVars, uiVars, served, detached, ckVars>>

\* document.querySelectorAll('#processingFilesList .' + class).length
SelectorCount(list, class) == Cardinality({i \in 1..Len(list) : list[i] = class})

\* updateProcessingList: one div.processing-file-item for every file
ProcessingList(n) == [i \in 1..n |-> "processing-file-item"]

\* the click listener of setupTabNavigation on the page ui = [pane, status]
SetupTabNavigation(tabId, ui) ==
  IF tabId = "results"
  THEN IF ~goToResultsDisabled \/ totalProcessedFiles = 0
       THEN [ui EXCEPT !.pane = "results"]
       ELSE [ui EXCEPT !.status = "complete-first"]
  ELSE [ui EXCEPT !.pane = tabId]

\* the click listener of the tab handler script
TabHandler(tabId, ui) ==
  IF /\ tabId = "results"
     /\ goToResultsDisabled
     /\ SelectorCount(processingFilesList, "file-item") > 0
  THEN [ui EXCEPT !.status = "complete-first"]
  ELSE [ui EXCEPT !.pane = tabId]

\* a click on a tab: the two listeners run in the order they were added,
\* which is the order of the script elements of the page
TabClick(tabId, rendererFirst) ==
  /\ LET ui == [pane |-> activePane, status |-> statusMessage]
         after == IF rendererFirst
                  THEN TabHandler(tabId, SetupTabNavigation(tabId, ui))
                  ELSE SetupTabNavigation(tabId, TabHandler(tabId, ui)) IN
       /\ activePane' = after.pane
       /\ statusMessage' = after.status
  /\ UNCHANGED <<goToResultsDisabled, importedFiles, totalProcessedFiles,
                 processingFilesList, processBtnDisabled, tabRest>>

\* the click listener of the settings icon
SettingsIconClick ==
  /\ activePane' = "settings"
  /\ UNCHANGED <<goToResultsDisabled, importedFiles, totalProcessedFiles,
                 processingFilesList, statusMessage, processBtnDisabled, tabRest>>

\* addFiles and updateFileList: one more PDF is imported
AddFiles ==
  /\ importedFiles < MaxFiles
  /\ importedFiles' = importedFiles + 1
  /\ processBtnDisabled' = FALSE
  /\ UNCHANGED <<goToResultsDisabled, activePane, totalProcessedFiles,
                 processingFilesList, statusMessage, tabRest>>

\* startProcessing, the click listener of processBtn
StartProcessing(clientName) ==
  /\ ~processBtnDisabled
  /\ IF clientName = ""
     THEN /\ statusMessage' = "enter-client-name"
          /\ UNCHANGED <<activePane, totalProcessedFiles, processingFilesList,
                         processBtnDisabled>>
     ELSE IF importedFiles = 0
     THEN /\ statusMessage' = "no-files"
          /\ UNCHANGED <<activePane, totalProcessedFiles, processingFilesList,
                         processBtnDisabled>>
     ELSE /\ totalProcessedFiles' = importedFiles
          /\ processingFilesList' = ProcessingList(importedFiles)
          /\ activePane' = "processing"
          /\ processBtnDisabled' = TRUE
          /\ statusMessage' = "starting"
  /\ UNCHANGED <<goToResultsDisabled, importedFiles, tabRest>>

\* the catch of startProcessing: the run could not be started
StartRejected ==
  /\ totalProcessedFiles > 0 /\ processBtnDisabled
  /\ processBtnDisabled' = FALSE
  /\ statusMessage' = "error"
  /\ UNCHANGED <<goToResultsDisabled, activePane, importedFiles,
                 totalProcessedFiles, processingFilesList, tabRest>>

\* a completion is detected: addToProcessingLog with a completion message,
\* the interval of startProcessing, or handleProcessStatus of type complete
CompletionDetected ==
  /\ totalProcessedFiles > 0
  /\ goToResultsDisabled' = FALSE
  /\ UNCHANGED <<tabVars, tabRest>>

\* the click listener of goToResultsBtn; a disabled button gets no click
GoToResultsClick ==
  /\ ~goToResultsDisabled
  /\ activePane' = "results"
  /\ UNCHANGED <<goToResultsDisabled, importedFiles, totalProcessedFiles,
                 processingFilesList, statusMessage, processBtnDisabled, tabRest>>

InitTabs == Init

NextTabs ==
  \/ \E tabId \in TabIds, rendererFirst \in BOOLEAN : TabClick(tabId, rendererFirst)
  \/ SettingsIconClick
  \/ AddFiles
  \/ \E clientName \in {"", "client"} : StartProcessing(clientName)
  \/ StartRejected
  \/ CompletionDetected
  \/ GoToResultsClick

SpecTabs == InitTabs /\ [][NextTabs]_vars

\* ------------------------------------------------------------ the uploads
\* files-dropped and process-files hand the paths the renderer chose to
\* processUploadedFiles, which copies each into data/source_documents.
MaxInputs == 2

SourceDir == <<"data", "source_documents">>

\* two folders of the user with files of the same names in each, and an
\* empty source directory
UploadTree ==
  (<<>> :> "dir") @@ (<<"data">> :> "dir") @@ (SourceDir :> "dir") @@
  (<<"A">> :> "dir") @@ (<<"B">> :> "dir") @@
  (<<"A", "x.pdf">> :> "AX") @@ (<<"B", "x.pdf">> :> "BX") @@
  (<<"A", "y.pdf">> :> "AY") @@ (<<"B", "y.pdf">> :> "BY")

\* the paths a call may name; A/z.pdf does not exist
InputPaths ==
  {<<"A", "x.pdf">>, <<"B", "x.pdf">>, <<"A", "y.pdf">>, <<"B", "y.pdf">>,
   <<"A", "z.pdf">>}

InputLists == UNION {[1..n -> InputPaths] : n \in 0..MaxInputs}

\* path.basename
Basename(filePath) == filePath[Len(filePath)]

\* fs.copyFileSync(src, dest) does not throw: src is a file and dest is not a
\* directory
CopyFileOk(tree, src, dest) ==
  /\ ExistsSync(tree, src) /\ ~IsDirectory(tree, src)
  /\ ~IsDirectory(tree, dest)

\* fs.copyFileSync(src, dest): dest is created or overwritten
CopyFileSync(tree, src, dest) ==
  [l \in DOMAIN tree \cup {dest} |-> IF l = dest THEN tree[src] ELSE tree[l]]

\* the body of the for loop of processUploadedFiles for one path
UploadOne(acc, filePath) ==
  LET fileName == Basename(filePath)
      targetPath == Append(SourceDir, fileName) IN
    IF CopyFileOk(acc.tree, filePath, targetPath)
    THEN [tree    |-> CopyFileSync(acc.tree, filePath, targetPath),
          success |-> acc.success + 1,
          failed  |-> acc.failed,
          results |-> Append(acc.results, [file |-> fileName, success |-> TRUE])]
    ELSE [tree    |-> acc.tree,
          success |-> acc.success,
          failed  |-> acc.failed + 1,
          results |-> Append(acc.results, [file |-> fileName, success |-> FALSE])]

\* processUploadedFiles(filePaths) on the tree: the tree it leaves and the
\* value it returns
RECURSIVE UploadAll(_, _)
UploadAll(acc, filePaths) ==
  IF filePaths = <<>> THEN acc
  ELSE UploadAll(UploadOne(acc, Head(filePaths)), Tail(filePaths))

ProcessUploadedFiles(filePaths) ==
  /\ fsCall = NoFsCall
  /\ nmut < MaxMutations
  /\ LET out == UploadAll([tree |-> fs, success |-> 0, failed |-> 0,
                           results |-> <<>>], filePaths) IN
       /\ fs' = out.tree
       /\ fsResult' = [op |-> "process-files", success |-> out.success,
                       failed |-> out.failed, results |-> out.results]
  /\ fsCall' = <<"process-files", filePaths>>
  /\ nmut' = nmut + 1
  /\ UNCHANGED <<supVars, parVars, busVars>>

InitUpload ==
  /\ InitSupervisor /\ ParserIdle /\ BusIdle /\ ExtIdle
  /\ fs = UploadTree
  /\ nmut = 0
  /\ fsCall = NoFsCall
  /\ fsResult = NoFsResult

NextUpload ==
  \/ \E filePaths \in InputLists : ProcessUploadedFiles(filePaths) /\ UNCHANGED extVars
  \/ Reply /\ UNCHANGED extVars

SpecUpload == InitUpload /\ [][NextUpload]_vars

\* ------------------------------------------------------------- the claims
StartOps == {"start-python", "process-documents"}

\* the process-result events among evs
ResultsIn(evs) == {i \in 1..Len(evs) : evs[i].ch = "process-result"}

\* the close callback of child w runs in this step
Closes(w) == wk[w].st = "dead" /\ wk'[w].st = "closed"

\* C1: at most one child the supervisor spawned is alive at any instant,
\* also when start follows stop before the stopped child has exited.
C1_AtMostOneLiveWorker == Cardinality(LiveWorkers) <= 1

\* C2: a start (start-python or process-documents) made while the supervisor
\* records a child returns success flagged alreadyRunning and spawns nothing.
C2_StartWhileRunningIsIdempotent ==
  [][(lastResult'.op \in StartOps /\ pythonProcess # Null)
       => /\ lastResult'.success
          /\ lastResult'.alreadyRunning
          /\ nspawn' = nspawn
          /\ pythonProcess' = pythonProcess
          /\ wk' = wk]_vars

\* C2 witness: the second of two starts has returned alreadyRunning while the
\* child of the first is running, and there has been one spawn.
C2_Witness ==
  /\ lastResult.op \in StartOps
  /\ lastResult.success /\ lastResult.alreadyRunning
  /\ nspawn = 1 /\ pythonProcess = 1 /\ Alive(1)

\* C3: when the 5 s timer of a stop fires and the child that stop was
\* stopping has not exited, that child gets SIGKILL.
C3_ForceKillReachesStoppedWorker ==
  [][\A t \in Workers :
       (t \in timers /\ t \notin timers' /\ Alive(t)) => "SIGKILL" \in wk'[t].sig]_vars

\* C4: a run gets exactly one completion (process-result) in the window:
\* with the window open, the close callback sends one when the stdout
\* callback has sent none, and none when it has already sent one.
C4_ExactlyOneCompletion ==
  [][\A w \in Workers :
       (Closes(w) /\ mainWindow)
         => (IF wk[w].structured THEN 1 ELSE 0) + Cardinality(ResultsIn(lastSent')) = 1]_vars

\* C5: when a child closes with no structured result sent for it, the close
\* callback sends the window one process-result made from the exit code:
\* success is true for code 0 and false otherwise, and the failure carries
\* the code.  (Every send is under the mainWindow guard of main.js:527.)
C5_SyntheticCompletionFromExitCode ==
  [][\A w \in Workers, code \in ExitCodes :
       (Closes(w) /\ mainWindow /\ ~wk[w].structured /\ CloseHandler(w, code))
         => /\ Cardinality(ResultsIn(lastSent')) = 1
            /\ \A i \in ResultsIn(lastSent') :
                 /\ lastSent'[i].src = w
                 /\ lastSent'[i].payload.success = "true" <=> code = "0"
                 /\ lastSent'[i].payload.success = "false" <=> code # "0"
                 /\ code # "0" =>
                      \E k \in 1..Len(lastSent'[i].payload.message) :
                         lastSent'[i].payload.message[k] = code]_vars

\* C5 witness: a child that sent no structured result has closed with exit
\* code 1 and the window got success = false with the code.
C5_Witness ==
  /\ Len(lastSent) = 2
  /\ lastSent[2].ch = "process-result"
  /\ lastSent[2].payload.success = "false"
  /\ lastSent[2].payload.message = <<"Processing failed with exit code", "1">>
  /\ wk[lastSent[2].src].st = "closed"
  /\ ~wk[lastSent[2].src].structured

\* C6: a start whose child could not be spawned does not return success.
C6_SpawnFailureIsReported ==
  (lastResult.op \in StartOps /\ lastResult.success /\ ~lastResult.alreadyRunning)
    => wk[nspawn].st # "failed"

\* C7: when pythonProcess is null no spawned child is running, and when it
\* records a child no other child is running.
C7_StateFieldMatchesWorkers ==
  /\ pythonProcess = Null => LiveWorkers = {}
  /\ pythonProcess # Null => LiveWorkers \subseteq {pythonProcess}

\* the stream cut at its newlines
RECURSIVE RecordsOf(_, _)
RecordsOf(stream, acc) ==
  IF stream = <<>> THEN (IF acc = <<>> THEN <<>> ELSE <<acc>>)
  ELSE IF Head(stream) = "NL"
  THEN <<Append(acc, "NL")>> \o RecordsOf(Tail(stream), <<>>)
  ELSE RecordsOf(Tail(stream), Append(acc, Head(stream)))

RECURSIVE EventsOf(_)
EventsOf(cs) ==
  IF cs = <<>> THEN <<>>
  ELSE StdoutOnData(Head(cs), TRUE, 1) \o EventsOf(Tail(cs))

\* C8: when the whole stream has been read, the events sent are those of
\* the same stream read one record per chunk, however it was cut.
C8_ChunkingIndependent ==
  pending = <<>> => published = EventsOf(RecordsOf(Flatten(chunks), <<>>))

\* C9: when the subscriber of process-status is handed stdout text holding
\* the phrase "Processing complete", the Go To Results button is enabled.
C9_PhraseEnablesResults ==
  (\E i \in 1..Len(lastSent) :
      lastSent[i].ch = "process-status" /\ CarriesPhrase(lastSent[i]))
    => ~goToResultsDisabled

\* chunk c is one complete record
IsRecord(c) == RecordsOf(c, <<>>) = <<c>> /\ c[Len(c)] = "NL"

\* the channel claimed for a record: Progress for an object with a status
\* member, Result for one with a success member, Log or fallback otherwise
ChannelsFor(rec) ==
  IF JsonParses(rec) /\ Trim(rec)[2] \in {"ST", "SF", "SY"} THEN {"process-status"}
  ELSE IF JsonParses(rec) /\ Trim(rec)[2] \in {"SUT", "SUF"} THEN {"process-result"}
  ELSE {"process-status", "python-output"}

\* C10: read one record per chunk, every record gives exactly one event, on
\* the channel of its kind; no record is dropped.
C10_EveryRecordOneEvent ==
  (\A i \in 1..Len(chunks) : IsRecord(chunks[i]))
    => /\ Len(published) = Len(chunks)
       /\ \A i \in 1..Len(chunks) : published[i].ch \in ChannelsFor(chunks[i])

\* the elements of a sequence
Range(q) == {q[i] : i \in 1..Len(q)}

C12_ThrowingListenerDoesNotBlock ==
  [][Len(wire') < Len(wire)
       => LET e == wire[NextDelivered(wire)] IN
          \A l \in Range(listeners[e.ch]) : received'[l] = Append(received[l], e.seq)]_vars

\* C13: a callback registered before a removeAllListeners() is never called
\* again after it, on any of the five channels.
C13_RemovedListenersStaySilent ==
  [][\A l \in stale : received'[l] = received[l]]_vars

\* C13 witness: a callback registered before the removal and one registered
\* after it are on the same channel, and an event emitted after the removal
\* has reached the second only.
C13_Witness ==
  \E l \in stale, m \in (1..Len(callbacks)) \ stale :
    /\ callbacks[l].ch = callbacks[m].ch
    /\ received[m] # <<>>
    /\ received[l] = <<>>

\* ------------------------------------------------- claims on the file tree
\* location l is the processed directory, the metadata directory, or below
InRoot(l) == IsPrefix(ProcessedDir, l) \/ IsPrefix(MetadataDir, l)

Outside(tree) == {l \in DOMAIN tree : ~InRoot(l)}

\* C14: no handler touches a path outside the configured roots: whatever
\* lies outside the processed and metadata directories stays as it was.
C14_NothingOutsideRootTouched ==
  /\ Outside(fs) = Outside(InitialTree)
  /\ \A l \in Outside(fs) : fs[l] = InitialTree[l]

\* the last request was a rename-file with an oldPath and a newName or newPath
ValidRename(call) ==
  call[1] = "rename-file" /\ call[2] # <<>> /\ (call[3] # "" \/ call[4] # <<>>)

\* C15: a rename or move whose destination exists fails with the already
\* exists error and changes nothing; and no rename-file call ever changes
\* what is at a location that existed before it and exists after it.
C15_RenameNeverOverwrites ==
  [][fsCall'[1] = "rename-file"
       => /\ (ValidRename(fsCall')
                /\ ExistsSync(fs, TargetPath(fsCall'[2], fsCall'[3], fsCall'[4])))
               => (~fsResult'.success /\ fsResult'.error = AlreadyExistsFile /\ fs' = fs)
          /\ \A l \in DOMAIN fs \cap DOMAIN fs' : fs'[l] = fs[l]]_vars

\* C15 witness: a rename of an existing source to an existing destination
\* has returned the already-exists failure.
C15_Witness ==
  /\ ValidRename(fsCall)
  /\ fsResult.error = AlreadyExistsFile
  /\ ExistsSync(fs, SourcePath(fsCall[2]))
  /\ ExistsSync(fs, TargetPath(fsCall[2], fsCall[3], fsCall[4]))
  /\ SourcePath(fsCall[2]) # TargetPath(fsCall[2], fsCall[3], fsCall[4])

\* C16: a rename-file call either returns success, and then the source and
\* all below it are at the destination, nothing is at the old path and the
\* rest of the tree is as before, or returns a failure and the tree is
\* exactly as before.
C16_RenameAllOrNothing ==
  [][fsCall'[1] = "rename-file"
       => IF fsResult'.success
          THEN LET src == SourcePath(fsCall'[2])
                   dst == TargetPath(fsCall'[2], fsCall'[3], fsCall'[4]) IN
               /\ Under(fs', src) = {}
               /\ \A l \in Under(fs, src) :
                    /\ ExistsSync(fs', dst \o SubSeq(l, Len(src) + 1, Len(l)))
                    /\ fs'[dst \o SubSeq(l, Len(src) + 1, Len(l))] = fs[l]
               /\ \A l \in DOMAIN fs \ Under(fs, src) : ExistsSync(fs', l) /\ fs'[l] = fs[l]
               /\ Cardinality(DOMAIN fs') = Cardinality(DOMAIN fs)
          ELSE fs' = fs]_vars

\* C16 witness: a rename-file has returned success, its source is gone and
\* its destination is there.
C16_Witness ==
  /\ ValidRename(fsCall)
  /\ fsResult.success
  /\ ~ExistsSync(fs, SourcePath(fsCall[2]))
  /\ ExistsSync(fs, TargetPath(fsCall[2], fsCall[3], fsCall[4]))

\* the tree of TreeWithF with a.pdf moved into F
TreeMoved ==
  [l \in (DOMAIN TreeWithF \ {Append(ProcessedDir, "a.pdf")})
            \cup {ProcessedDir \o <<"F", "a.pdf">>} |->
     IF l = ProcessedDir \o <<"F", "a.pdf">> THEN "A" ELSE TreeWithF[l]]

MoveAIntoF == <<"rename-file", <<"a.pdf">>, "", <<"F", "a.pdf">> >>

C18_SidecarFailureIsNotFatal ==
  [][(/\ fsCall'[1] = "delete-file"
      /\ ExistsSync(fs, ResolveStripped(fsCall'[2]))
      /\ ~ExistsSync(fs', ResolveStripped(fsCall'[2])))
       => fsResult'.success]_vars

\* C19: create-folder with a folder name fails with the already-exists
\* error and changes nothing when its target exists, and otherwise returns
\* success with the target and all directories above it in the tree.
C19_CreateFolderExistsOrCreates ==
  [][(fsCall'[1] = "create-folder" /\ fsCall'[3] # "")
       => LET target == FolderTarget(fsCall'[2], fsCall'[3]) IN
          IF ExistsSync(fs, target)
          THEN ~fsResult'.success /\ fsResult'.error = AlreadyExistsFolder /\ fs' = fs
          ELSE /\ fsResult'.success
               /\ \A q \in Prefixes(target) : IsDirectory(fs', q)]_vars

Sorted(q) == \A i, j \in 1..Len(q) : i < j => Rank(q[i]) < Rank(q[j])

\* C20: get-directory-contents of an existing directory returns dirs and
\* files that are disjoint, each sorted, and together exactly the entries
\* of the directory; of a path that does not exist it returns the not-found
\* error.
C20_ListSortedPartition ==
  [][fsCall'[1] = "get-directory-contents"
       => LET targetPath == ResolveList(fsCall'[2]) IN
          /\ IsDirectory(fs, targetPath)
               => /\ fsResult'.success
                  /\ Range(fsResult'.dirs) \cap Range(fsResult'.files) = {}
                  /\ Sorted(fsResult'.dirs) /\ Sorted(fsResult'.files)
                  /\ Range(fsResult'.dirs) =
                       {n \in Entries(fs, targetPath) : fs[Append(targetPath, n)] = "dir"}
                  /\ Range(fsResult'.files) =
                       {n \in Entries(fs, targetPath) : fs[Append(targetPath, n)] # "dir"}
          /\ ~ExistsSync(fs, targetPath)
               => (~fsResult'.success /\ fsResult'.error = "Directory not found")]_vars

\* C20 witness: the root with a folder and both documents has been listed:
\* one directory, and the two files in order.
C20_Witness ==
  /\ fsCall[1] = "get-directory-contents"
  /\ fsResult.dirs = <<"F">>
  /\ fsResult.files = <<"a.pdf", "b.pdf">>

\* a start whose .env key is usable and whose spawn() starts the child
GoodStart == StartPython("valid", "ok") \/ ProcessDocuments("valid", "ok")

\* every child spawned so far has closed
AllClosed == nspawn >= 1 /\ \A w \in 1..nspawn : wk[w].st = "closed"

\* C24: stop-python with no child recorded returns success (notRunning),
\* sends no signal, arms no timer and leaves the supervisor state as it
\* was, whatever was called before it.
C24_StopWithoutWorkerIsNoOp ==
  [][(pythonProcess = Null /\ lastResult'.op = "stop-python")
       => /\ lastResult'.success /\ lastResult'.notRunning
          /\ lastResult'.error = "none"
          /\ wk' = wk /\ timers' = timers
          /\ pythonProcess' = Null /\ nspawn' = nspawn
          /\ mainWindow' = mainWindow /\ lastSent' = <<>>]_vars

\* C24 witness: after a child ran and closed, a stop has returned notRunning
\* with no timer armed and no child recorded.
C24_Witness ==
  /\ lastResult.op = "stop-python" /\ lastResult.success /\ lastResult.notRunning
  /\ nspawn = 1 /\ wk[1].st = "closed"
  /\ timers = {} /\ pythonProcess = Null

\* C25: once every child spawned so far has closed, a start with a usable
\* key spawns a new child, records it and returns success with its pid.
C25_SupervisorIsReusable ==
  [][(AllClosed /\ GoodStart)
       => /\ nspawn' = nspawn + 1
          /\ pythonProcess' = nspawn'
          /\ wk'[nspawn'].st = "alive"
          /\ lastResult'.success /\ ~lastResult'.alreadyRunning
          /\ lastResult'.pid = nspawn']_vars

\* C25 witness: the first child closed without a stop, and a second start
\* has returned success with the pid of the second child, which is running.
C25_Witness ==
  /\ nspawn = 2 /\ wk[1].st = "closed" /\ timers = {}
  /\ pythonProcess = 2 /\ Alive(2)
  /\ lastResult.op \in StartOps /\ lastResult.success
  /\ ~lastResult.alreadyRunning /\ lastResult.pid = 2

\* C28: the 5 s timer of the stop of child t sends SIGKILL to no child other
\* than t.
C28_TimerTargetsStoppedWorkerOnly ==
  [][\A t \in Workers :
       (t \in timers /\ t \notin timers')
         => \A w \in Workers \ {t} :
              "SIGKILL" \in wk'[w].sig => "SIGKILL" \in wk[w].sig]_vars

\* C29: the close of a child that is not the one the supervisor records
\* leaves the recorded child in place and sends the window no process-result.
C29_LateCloseLeavesNewRunAlone ==
  [][\A w \in Workers :
       (Closes(w) /\ pythonProcess # Null /\ pythonProcess # w)
         => /\ pythonProcess' = pythonProcess
            /\ ResultsIn(lastSent') = {}]_vars

\* C30: a start is never answered alreadyRunning on account of a child whose
\* spawn failed.
C30_FailedSpawnIsForgotten ==
  ~(/\ lastResult.op \in StartOps /\ lastResult.alreadyRunning
    /\ pythonProcess # Null /\ wk[pythonProcess].st = "failed")

\* C23: a start-python or stop-python call that fails returns a result with
\* success = false and a message.  A start fails when no child was recorded
\* before it and no running child is recorded after it.
C23_FailuresAreStructured ==
  [][/\ (/\ lastResult'.op = "start-python"
         /\ pythonProcess = Null
         /\ ~(pythonProcess' # Null /\ wk'[pythonProcess'].st = "alive"))
          => (~lastResult'.success /\ lastResult'.error # "none")
     /\ (lastResult'.op = "stop-python" /\ ~lastResult'.success)
          => lastResult'.error # "none"]_vars

\* C21: a drop of item A on folder item B sends exactly one rename-file
\* request, with oldPath current/A and newPath current/B/A; a drop of a
\* folder on itself sends no request.  A drop step changes no file.
C21_DropIssuesOneMove ==
  [][lastDrop' # NoDrop
       => /\ fs' = fs /\ fsCall' = fsCall
          /\ outbox' = outbox \o lastDrop'.requests
          /\ IF lastDrop'.source = lastDrop'.target /\ lastDrop'.type = "folder"
             THEN lastDrop'.requests = <<>>
             ELSE lastDrop'.requests =
                    << <<Append(currentDirectory, lastDrop'.source), "",
                         currentDirectory \o <<lastDrop'.target, lastDrop'.source>> >> >>]_vars

\* C21 witness: a.pdf was dropped on folder F, which sent the one request
\* still waiting, and then folder F was dropped on itself, which sent none.
C21_Witness ==
  /\ outbox = << << <<"processed", "a.pdf">>, "", <<"processed", "F", "a.pdf">> >> >>
  /\ lastDrop.source = "F" /\ lastDrop.target = "F" /\ lastDrop.type = "folder"
  /\ lastDrop.requests = <<>>

\* C22: of two rename-file requests in flight for one destination, never
\* both return success; when the one handled first succeeds, the other
\* fails with the already-exists error and leaves the tree as the first
\* left it, the destination included.
C22_RaceHasOneWinner ==
  Len(served) = 2 =>
    LET first == served[1]
        second == served[2]
        targetPath == TargetPath(outbox[1][1], outbox[1][2], outbox[1][3]) IN
    /\ ~(first.result.success /\ second.result.success)
    /\ first.result.success =>
         /\ ~second.result.success
         /\ second.result.error = AlreadyExistsFile
         /\ fs = first.tree
         /\ ExistsSync(fs, targetPath)

\* C22 witness: two requests with different sources raced for a free
\* destination; the first handled won, and the source of the second is
\* still where it was.
C22_Witness ==
  /\ Len(served) = 2
  /\ served[1].result.success
  /\ served[2].result.error = AlreadyExistsFile
  /\ SourcePath(outbox[1][1]) # SourcePath(outbox[2][1])
  /\ ExistsSync(fs, SourcePath(outbox[served[2].req][1]))

C27_AppendIsIdempotent ==
  [][ckResult'.op = "append"
       => /\ \A id \in ckResult'.ids :
               /\ Load(checkpoint') = Load(checkpoint) \cup {id}
               /\ id \in Load(checkpoint) => checkpoint' = checkpoint
          /\ Len(checkpoint'.ids) = Cardinality(Load(checkpoint'))]_vars

\* C27 witness: i1 has been appended to a checkpoint that held only i1, and
\* the checkpoint still holds the one entry.
C27_Witness ==
  /\ ckResult.op = "append" /\ ckResult.ids = {"i1"} /\ ckResult.present
  /\ checkpoint = File(TRUE, TRUE, <<"i1">>)

\* the .env states with no usable key
BadKeys == {"missing", "nokey", "placeholder"}

\* C31: with no child recorded, a start (start-python or process-documents)
\* that finds no .env file, no key in it or the sample value returns
\* success = false with an error message, spawns nothing and leaves the
\* supervisor state as it was.
C31_StartWithoutKeyFails ==
  [][(/\ pythonProcess = Null
      /\ lastResult'.op \in StartOps
      /\ \E k \in BadKeys : StartPython(k, "ok") \/ ProcessDocuments(k, "ok"))
       => /\ ~lastResult'.success /\ lastResult'.error # "none"
          /\ nspawn' = nspawn /\ wk' = wk
          /\ pythonProcess' = Null /\ timers' = timers]_vars

\* C31 witness: after a child ran and closed, a start has failed for the
\* key, and no second child was spawned.
C31_Witness ==
  /\ lastResult.op \in StartOps /\ ~lastResult.success
  /\ lastResult.error = "API key not set or using default value"
  /\ nspawn = 1 /\ wk[1].st = "closed" /\ pythonProcess = Null

\* C32: the handlers resolve the paths of the results page alike: the
\* reload after a successful create-folder in the current directory lists
\* the new folder, and a rename of current/<item> to a free name succeeds
\* when a listing of the current directory has the item.
C32_HandlersResolveAlike ==
  [][/\ (/\ fsCall[1] = "create-folder" /\ fsResult.success
         /\ fsCall'[1] = "get-directory-contents")
          => /\ fsResult'.error = "none"
             /\ fsCall[3] \in Range(fsResult'.dirs)
     /\ (/\ fsCall'[1] = "rename-file" /\ fsCall'[3] # "" /\ Len(fsCall'[2]) >= 2
         /\ LET oldPath == fsCall'[2]
                listing == ListReturn(fs, SubSeq(oldPath, 1, Len(oldPath) - 1), NameOrder)
                names == Range(listing.dirs) \cup Range(listing.files) IN
            /\ listing.error = "none"
            /\ oldPath[Len(oldPath)] \in names
            /\ fsCall'[3] \notin names)
          => fsResult'.success]_vars

\* the sidecar of the claim for a file at location loc: in the metadata
\* directory, the same relative directory, the base name with its extension
\* replaced by .json (a name without extension has no such file here)
ClaimedSidecar(loc) ==
  LET name == loc[Len(loc)] IN
  Append(Join(MetadataDir, Relative(ProcessedDir, Dirname(loc))),
         IF HasDot(name) THEN JsonName(name) ELSE "no-extension.json")

\* C33: a delete-file that returns success leaves every file other than
\* its target and the target's sidecar as it was.
C33_DeleteTouchesTargetAndSidecarOnly ==
  [][(fsCall'[1] = "delete-file" /\ fsResult'.success)
       => LET target == ResolveStripped(fsCall'[2]) IN
          \A l \in DOMAIN fs \ {target, ClaimedSidecar(target)} :
             l \in DOMAIN fs' /\ fs'[l] = fs[l]]_vars

\* C34: for every process-status event sent to the window, a branch of the
\* subscriber handleProcessStatus runs (it adds a log entry or changes the
\* status shown).
C34_StatusEventsAreActedOn ==
  \A i \in 1..Len(lastSent) :
    lastSent[i].ch = "process-status" => StatusBranch(lastSent[i].payload) # "none"

\* C35: closing the window while a child is running sends the child SIGTERM
\* and clears pythonProcess; from then on no event of that child (status,
\* log, result) is sent to a window; and nothing is sent while there is no
\* window.
C35_ClosedWindowSilencesItsWorker ==
  [][/\ (mainWindow /\ ~mainWindow' /\ pythonProcess # Null)
        => /\ pythonProcess' = Null
           /\ Alive(pythonProcess) => "SIGTERM" \in wk'[pythonProcess].sig
     /\ \A i \in 1..Len(lastSent') : lastSent'[i].src \notin detached
     /\ ~mainWindow => lastSent' = <<>>]_vars

\* C36: while a run started from the page has no completion detected (files
\* are being processed and the Go To Results button is disabled), the results
\* pane is not the active one: a click on the Results tab does not open it.
C36_ResultsPaneWaitsForCompletion ==
  (totalProcessedFiles > 0 /\ goToResultsDisabled) => activePane # "results"

\* C37: processUploadedFiles returns one result for every input path, in the
\* order of the inputs, with success + failed equal to the number of inputs;
\* and every input it reports as a success is in the source directory under
\* its base name with its own content when the call returns, also when two
\* inputs have the same base name.
C37_UploadReportsWhatItStored ==
  fsCall[1] = "process-files" =>
    LET filePaths == fsCall[2]
        results == fsResult.results IN
      /\ Len(results) = Len(filePaths)
      /\ fsResult.success + fsResult.failed = Len(filePaths)
      /\ \A i \in 1..Len(filePaths) :
           /\ results[i].file = Basename(filePaths[i])
           /\ results[i].success =>
                LET stored == Append(SourceDir, Basename(filePaths[i])) IN
                  /\ ExistsSync(fs, stored)
                  /\ fs[stored] = fs[filePaths[i]]

====
